---- MODULE Spec2Model ----
(***************************************************************************)
(* Model of the Saju/Oheng calculation engine (src/saju/saju_service.py)   *)
(* and of the request handlers that run it (src/api/auth.py,               *)
(* src/api/users.py).                                                      *)
(*                                                                         *)
(* Encoding.  A date is an integer day number; a time of day is the number *)
(* of minutes since 00:00 (0..1439); an instant (datetime) is              *)
(* date * 1440 + minutes.  An absent time or instant (Python None) is      *)
(* NONE; an absent character or float is the string "none".  Scores are    *)
(* exact rationals held as integers: a raw score is counted in units of    *)
(* 1 / (4 * RateLcm) point, a percentage in tenths of a percent.           *)
(***************************************************************************)
EXTENDS Integers, Sequences, FiniteSets, TLC

VARIABLES
    manses,        \* table "manses": solar date -> stored calendar record
    manses0,       \* the calendar table as it was first loaded (reference copy)
    users,         \* table "Users": firebase_uid -> stored row, or NoUser
    absent_pairs,  \* (day stem, slot) pairs the hour-pillar table lacks
    tie_up,        \* whether round() takes an exact tie up (floating point)
    call,          \* the last request / function call and its arguments
    ret,           \* what that call returned or raised
    cache,         \* Redis: uid -> the cached profile, or NoProfile
    requests,      \* requests in progress: their arguments, position, locals
    friendships,   \* table "Friendships": the stored rows
    last_friendship_id  \* the AUTO_INCREMENT counter of that table

\* the variables of the profile cache and of the friend handlers
service_vars == <<cache, requests, friendships, last_friendship_id>>

vars == <<manses, manses0, users, absent_pairs, tie_up, call, ret, service_vars>>

\* Python None for an optional time / datetime.
NONE == 0 - 1

\* no cache entry, no request in progress, no friendship row
NoService ==
    /\ cache = <<>>
    /\ requests = <<>>
    /\ friendships = {}
    /\ last_friendship_id = 0

MinutesPerDay == 24 * 60

(***************************************************************************)
(* Bounds of the model.                                                    *)
(***************************************************************************)
\* number of consecutive solar dates the calendar table holds, in Spec and in
\* SpecResolve / SpecSaju
NumDays == 2
NumResolveDays == 3
\* how many stems / branches the pillar sets of SpecScore draw from
NumScoreStems == 2
NumScoreBranches == 3
\* how many of the profile values SpecClassify draws from
NumClassifyValues == 6
\* how many GET / PATCH requests of /users/me SpecCache lets arrive
NumCacheRequests == 3

\* threads of the pool that serve the friendship requests
NumFriendThreads == 2

\* Friendships rows created in one behaviour (the ids 1 .. MaxFriendshipId)
MaxFriendshipId == 2

(***************************************************************************)
(* The five elements and the user columns that hold them.                  *)
(***************************************************************************)
OHENG_KOREAN_KEYS == <<"wood", "fire", "earth", "metal", "water">>

Oheng == {OHENG_KOREAN_KEYS[i] : i \in 1..Len(OHENG_KOREAN_KEYS)}

KOREAN_TO_DB_MAP == [k \in Oheng |->
    CASE k = "wood"  -> "oheng_wood"
      [] k = "fire"  -> "oheng_fire"
      [] k = "earth" -> "oheng_earth"
      [] k = "metal" -> "oheng_metal"
      [] k = "water" -> "oheng_water"]

(***************************************************************************)
(* Static tables of saju/saju_data.py.  That file is not part of the       *)
(* sources at hand; the tables are written from the specification          *)
(* (sections 4.2, 4.3): ten stems each mapping to one element, twelve      *)
(* branches each holding 1-3 sub-components (element, relative rate),      *)
(* twelve two-hour slots of which the first wraps over midnight            *)
(* (23:30-01:29), and the (day stem, slot) -> hour pillar composition.     *)
(***************************************************************************)
Stems10 == <<"gap", "eul", "byeong", "jeong", "mu", "gi", "gyeong", "sin", "im", "gye">>

Branches12 == <<"ja", "chuk", "in", "myo", "jin", "sa", "o", "mi", "sin_b", "yu", "sul", "hae">>

AllStems == {Stems10[i] : i \in 1..Len(Stems10)}

AllBranches == {Branches12[i] : i \in 1..Len(Branches12)}

StemIndex == [s \in AllStems |-> CHOOSE i \in 1..Len(Stems10) : Stems10[i] = s]

\* element of a stem: two consecutive stems per element, in OHENG order
StemElement == [s \in AllStems |-> OHENG_KOREAN_KEYS[((StemIndex[s] - 1) \div 2) + 1]]

\* get_ten_star().get(day_sky).get(char)[1]: the element of stem `char` in the
\* table keyed by the day stem; "none" when either key is missing
get_ten_star(day_sky, char) ==
    IF day_sky \in AllStems /\ char \in AllStems THEN StemElement[char] ELSE "none"

C(e, r) == [fiveCircle |-> e, rate |-> r]

\* get_jijangan(): branch -> its sub-components (element, relative rate)
get_jijangan == [b \in AllBranches |->
    CASE b = "ja"    -> <<C("water", 100)>>
      [] b = "chuk"  -> <<C("water", 9), C("metal", 3), C("earth", 18)>>
      [] b = "in"    -> <<C("earth", 7), C("fire", 7), C("wood", 16)>>
      [] b = "myo"   -> <<C("wood", 100)>>
      [] b = "jin"   -> <<C("wood", 9), C("water", 3), C("earth", 18)>>
      [] b = "sa"    -> <<C("earth", 7), C("metal", 7), C("fire", 16)>>
      [] b = "o"     -> <<C("earth", 10), C("fire", 20)>>
      [] b = "mi"    -> <<C("fire", 9), C("wood", 3), C("earth", 18)>>
      [] b = "sin_b" -> <<C("earth", 7), C("water", 7), C("metal", 16)>>
      [] b = "yu"    -> <<C("metal", 100)>>
      [] b = "sul"   -> <<C("metal", 9), C("fire", 3), C("earth", 18)>>
      [] b = "hae"   -> <<C("wood", 10), C("water", 20)>>]

RECURSIVE SumRates(_)
SumRates(cs) == IF cs = <<>> THEN 0 ELSE Head(cs).rate + SumRates(Tail(cs))

\* a common multiple of every branch's rate total (30 and 100 above), so that
\* weight * rate / total_rate is an integer number of score units
RateLcm == 3 * 100

\* get_time_ju_data(): slot index -> (start, end), in minutes of the day;
\* slot 0 is 23:30-01:29, slot i (i >= 1) is (2i-1):30 - (2i+1):29
SlotIndexes == 0..11

get_time_ju_data == [i \in SlotIndexes |->
    IF i = 0 THEN <<23 * 60 + 30, 60 + 29>>
    ELSE <<(2 * i - 1) * 60 + 30, (2 * i + 1) * 60 + 29>>]

\* get_time_ju_data2(): day stem -> slot -> (hour stem, hour branch).  The hour
\* branch of slot i is the i-th branch; the hour stem of slot 0 is fixed by the
\* day stem and advances by one per slot.  `absent` lists the pairs the table
\* does not hold.
time_ju_data2_has(absent, day_sky, idx) ==
    day_sky \in AllStems /\ idx \in SlotIndexes /\ <<day_sky, idx>> \notin absent

get_time_ju_data2(day_sky, idx) ==
    LET first == (2 * ((StemIndex[day_sky] - 1) % 5)) % 10
    IN  <<Stems10[((first + idx) % 10) + 1], Branches12[idx + 1]>>

(***************************************************************************)
(* calculate_oheng_score (saju_service.py 129-204).                        *)
(***************************************************************************)
TOTAL_SCORE == 100

\* TOTAL_SCORE * 0.3 and TOTAL_SCORE * 0.7, in points
SKY_SCORE_TOTAL == (TOTAL_SCORE * 3) \div 10

GROUND_SCORE_TOTAL == (TOTAL_SCORE * 7) \div 10

\* score units per point
Unit == 4 * RateLcm

\* SKY_SCORE_TOTAL / 4.0 = 7.5 points, GROUND_SCORE_TOTAL / 4.0 = 17.5 points,
\* GROUND_SCORE_TOTAL * MONTH_BONUS = 21 points, in units
sky_base_score == (SKY_SCORE_TOTAL * Unit) \div 4

ground_base_score == (GROUND_SCORE_TOTAL * Unit) \div 4

MONTH_BONUS_SCORE == (GROUND_SCORE_TOTAL * 3 * Unit) \div 10

SkyFields == {"year_sky", "month_sky", "day_sky", "time_sky"}

GroundFields == {"year_ground", "month_ground", "day_ground", "time_ground"}

PillarFields == SkyFields \cup GroundFields

\* variant of SkyScore: the 30 stem points are split over the stems present
SkyScore_redistributed(p, field, e) ==
    LET char == p[field]
        present == Cardinality({f \in SkyFields : p[f] # "none"})
    IN  IF char # "none" /\ get_ten_star(p.day_sky, char) = e
        THEN (SKY_SCORE_TOTAL * Unit) \div present ELSE 0

\* section 3: what the stem in `field` adds to element e
SkyScore(p, field, e) ==
    LET char == p[field]
    IN  IF char # "none" /\ get_ten_star(p.day_sky, char) = e
        THEN sky_base_score ELSE 0

\* section 4: the weight of the branch in `field`
current_weight(field) ==
    IF field = "month_ground" THEN ground_base_score + MONTH_BONUS_SCORE
    ELSE ground_base_score

RECURSIVE RateOf(_, _)
RateOf(cs, e) ==
    IF cs = <<>> THEN 0
    ELSE (IF Head(cs).fiveCircle = e THEN Head(cs).rate ELSE 0) + RateOf(Tail(cs), e)

\* lines 189-190: total_rate of each branch; lines 193-195: the rates of a
\* branch's components of element e, added up
total_rate == [b \in AllBranches |-> SumRates(get_jijangan[b])]

element_rate == [b \in AllBranches |-> [e \in Oheng |-> RateOf(get_jijangan[b], e)]]

\* section 4: what the branch in `field` adds to element e
GroundScore(p, field, e) ==
    LET char == p[field]
    IN  IF char = "none" \/ char \notin AllBranches THEN 0
        ELSE IF total_rate[char] > 0
        THEN (current_weight(field) * element_rate[char][e]) \div total_rate[char]
        ELSE 0

\* sections 3-4: the accumulated scores before normalisation
RawScores(p) == [e \in Oheng |->
    SkyScore(p, "year_sky", e) + SkyScore(p, "month_sky", e)
    + SkyScore(p, "day_sky", e) + SkyScore(p, "time_sky", e)
    + GroundScore(p, "year_ground", e) + GroundScore(p, "month_ground", e)
    + GroundScore(p, "day_ground", e) + GroundScore(p, "time_ground", e)]

\* sum(scores.values())
SumScores(scores) ==
    scores["wood"] + scores["fire"] + scores["earth"] + scores["metal"] + scores["water"]

\* round(n / d) to the nearest integer.  The code rounds an IEEE double
\* (v / total_sum) * 100 to one decimal; when the exact quotient lies halfway
\* between two tenths the double lies on either side of it (25.5 / 40 * 100
\* rounds to 63.7, 9.5 / 40 * 100 to 23.8), so the direction of an exact tie
\* is the choice tie_up.
round_nearest(n, d) ==
    LET q == n \div d
        r == n % d
    IN  IF 2 * r < d THEN q
        ELSE IF 2 * r > d THEN q + 1
        ELSE IF tie_up THEN q + 1 ELSE q

\* variant of Percentages: divides by the nominal total instead of the sum
Percentages_nominal(scores) ==
    [e \in Oheng |-> round_nearest(scores[e] * 1000, TOTAL_SCORE * Unit)]

\* section 5: round(v / total_sum * 100, 1), in tenths of a percent
Percentages(scores) ==
    LET total_sum == SumScores(scores)
    IN  IF total_sum = 0 THEN [e \in Oheng |-> 0]
        ELSE [e \in Oheng |-> round_nearest(scores[e] * 1000, total_sum)]

NoScores == [e \in Oheng |-> NONE]

\* variant of calculate_oheng_score: no check of the day stem
calculate_oheng_score_unguarded(saju_pillars) ==
    LET scores == [e \in Oheng |->
            GroundScore(saju_pillars, "year_ground", e)
            + GroundScore(saju_pillars, "month_ground", e)
            + GroundScore(saju_pillars, "day_ground", e)
            + GroundScore(saju_pillars, "time_ground", e)
            + SkyScore(saju_pillars, "year_sky", e)
            + SkyScore(saju_pillars, "month_sky", e)
            + SkyScore(saju_pillars, "day_sky", e)
            + SkyScore(saju_pillars, "time_sky", e)]
    IN  [err |-> "OK", raw |-> scores, scores |-> Percentages(scores),
         saju_pillars |-> saju_pillars]

\* variant of calculate_oheng_score: the hour entries are taken out of the
\* dictionary (pop) as they are read
calculate_oheng_score_consuming(saju_pillars) ==
    IF saju_pillars.day_sky = "none" \/ saju_pillars.day_sky \notin AllStems
    THEN [err |-> "INTERNAL_SERVER_ERROR", raw |-> NoScores, scores |-> NoScores,
          saju_pillars |-> saju_pillars]
    ELSE LET scores == RawScores(saju_pillars)
         IN  [err |-> "OK", raw |-> scores, scores |-> Percentages(scores),
              saju_pillars |-> [saju_pillars EXCEPT !.time_sky = "none",
                                                    !.time_ground = "none"]]

\* the whole function: the error raised (or OK), the score table before
\* section 5 (raw), the returned percentages (scores) and the dictionary the
\* caller passed, as the call leaves it (the code only reads it)
calculate_oheng_score(saju_pillars) ==
    IF saju_pillars.day_sky = "none" \/ saju_pillars.day_sky \notin AllStems
    THEN [err |-> "INTERNAL_SERVER_ERROR", raw |-> NoScores, scores |-> NoScores,
          saju_pillars |-> saju_pillars]
    ELSE LET scores == RawScores(saju_pillars)
         IN  [err |-> "OK", raw |-> scores, scores |-> Percentages(scores),
              saju_pillars |-> saju_pillars]

(***************************************************************************)
(* get_time_pillar (saju_service.py 84-126).                               *)
(***************************************************************************)
UnknownPillar == [time_sky |-> "none", time_ground |-> "none"]

\* variant of InSlot: a plain range test for every slot
InSlot_range(index, birth_time) ==
    get_time_ju_data[index][1] <= birth_time /\ birth_time <= get_time_ju_data[index][2]

\* lines 105-111: whether birth_time lies in slot `index`
InSlot(index, birth_time) ==
    LET start_time == get_time_ju_data[index][1]
        end_time == get_time_ju_data[index][2]
    IN  IF start_time > end_time
        THEN birth_time >= start_time \/ birth_time <= end_time
        ELSE start_time <= birth_time /\ birth_time <= end_time

\* lines 99-111: the first slot (in table order) that holds birth_time, or NONE
time_index(birth_time) ==
    LET hits == {i \in SlotIndexes : InSlot(i, birth_time)}
    IN  IF hits = {} THEN NONE
        ELSE CHOOSE i \in hits : \A j \in hits : i <= j

\* variant of get_time_pillar: a pair the composition table lacks falls back
\* to the day stem and the slot's branch
get_time_pillar_fallback(day_sky, birth_time) ==
    IF birth_time = NONE THEN UnknownPillar
    ELSE IF time_index(birth_time) = NONE THEN UnknownPillar
    ELSE IF time_ju_data2_has(absent_pairs, day_sky, time_index(birth_time))
    THEN [time_sky |-> get_time_ju_data2(day_sky, time_index(birth_time))[1],
          time_ground |-> get_time_ju_data2(day_sky, time_index(birth_time))[2]]
    ELSE [time_sky |-> day_sky, time_ground |-> Branches12[time_index(birth_time) + 1]]

get_time_pillar(day_sky, birth_time) ==
    IF birth_time = NONE THEN UnknownPillar
    ELSE LET idx == time_index(birth_time)
         IN  IF idx = NONE THEN UnknownPillar
             ELSE IF time_ju_data2_has(absent_pairs, day_sky, idx)
             THEN [time_sky |-> get_time_ju_data2(day_sky, idx)[1],
                   time_ground |-> get_time_ju_data2(day_sky, idx)[2]]
             ELSE UnknownPillar

(***************************************************************************)
(* The calendar table (core/models.py, Manse) and _get_manse_record        *)
(* (saju_service.py 28-81).  A calendar tag is a sequence of tokens, so    *)
(* that "lunar_leap" = <<"lunar", "_leap">> starts with "lunar".           *)
(***************************************************************************)
SOLAR == <<"solar">>

LUNAR == <<"lunar">>

LUNAR_LEAP == <<"lunar", "_leap">>

\* str.startswith
startswith(str, prefix) == Len(str) >= 1 /\ str[1] = prefix

\* time(23, 30)
LATE_NIGHT == 23 * 60 + 30

\* datetime.combine(date, time)
combine(d, t) == d * MinutesPerDay + t

\* variant of search_date: the boundary minute 23:30 itself is not shifted
search_date_after(birth_date, birth_time) ==
    IF birth_time # NONE /\ birth_time > LATE_NIGHT THEN birth_date + 1
    ELSE birth_date

\* lines 43-46: the date the day pillar is looked up for
search_date(birth_date, birth_time) ==
    IF birth_time # NONE /\ birth_time >= LATE_NIGHT THEN birth_date + 1
    ELSE birth_date

\* variant of manse_query: falls back to the whole table when nothing matches
manse_query_fallback(db, date, birth_calendar) ==
    LET hits == IF birth_calendar = SOLAR
                THEN {i \in DOMAIN db : db[i].solarDate = date}
                ELSE {i \in DOMAIN db : db[i].lunarDate = date
                        /\ db[i].leapMonth = IF birth_calendar = LUNAR_LEAP THEN 1 ELSE 0}
    IN  IF hits = {} THEN DOMAIN db ELSE hits

\* lines 49-59: the rows the query matches (the caller has checked the tag)
manse_query(db, date, birth_calendar) ==
    IF birth_calendar = SOLAR
    THEN {i \in DOMAIN db : db[i].solarDate = date}
    ELSE LET is_leap_month == IF birth_calendar = LUNAR_LEAP THEN 1 ELSE 0
         IN  {i \in DOMAIN db : db[i].lunarDate = date /\ db[i].leapMonth = is_leap_month}

\* lines 71-73: ids of the rows before `rec`, and the latest of them
earlier_rows(db, rec) == {i \in DOMAIN db : db[i].solarDate < rec.solarDate}

previous_record(db, rec) ==
    db[CHOOSE i \in earlier_rows(db, rec) :
          \A j \in earlier_rows(db, rec) : db[j].solarDate <= db[i].solarDate]

\* variant of season_corrected: compares the shifted lookup date, not the
\* original birth date, with the season start
season_corrected_shifted(db, rec, birth_date, birth_time) ==
    IF /\ rec.seasonStartTime # NONE
       /\ birth_time # NONE
       /\ combine(IF birth_time >= LATE_NIGHT THEN birth_date + 1 ELSE birth_date,
                  birth_time) < rec.seasonStartTime
       /\ \E i \in DOMAIN db : db[i].solarDate < rec.solarDate
    THEN LET rows == {i \in DOMAIN db : db[i].solarDate < rec.solarDate}
             prev == db[CHOOSE i \in rows : \A j \in rows : db[j].solarDate <= db[i].solarDate]
         IN  [rec EXCEPT !.yearSky = prev.yearSky, !.yearGround = prev.yearGround,
                         !.monthSky = prev.monthSky, !.monthGround = prev.monthGround]
    ELSE rec

\* variant of season_corrected: the six pillar characters are taken from the
\* previous record
season_corrected_whole(db, rec, birth_date, birth_time) ==
    IF /\ rec.seasonStartTime # NONE
       /\ birth_time # NONE
       /\ combine(birth_date, birth_time) < rec.seasonStartTime
       /\ earlier_rows(db, rec) # {}
    THEN LET prev == previous_record(db, rec)
         IN  [rec EXCEPT !.yearSky = prev.yearSky, !.yearGround = prev.yearGround,
                         !.monthSky = prev.monthSky, !.monthGround = prev.monthGround,
                         !.daySky = prev.daySky, !.dayGround = prev.dayGround]
    ELSE rec

\* lines 66-79: the record with year and month taken from the previous record
\* when the birth instant is before the season start
season_corrected(db, rec, birth_date, birth_time) ==
    IF /\ rec.seasonStartTime # NONE
       /\ birth_time # NONE
       /\ combine(birth_date, birth_time) < rec.seasonStartTime
       /\ earlier_rows(db, rec) # {}
    THEN LET prev == previous_record(db, rec)
         IN  [rec EXCEPT !.yearSky = prev.yearSky, !.yearGround = prev.yearGround,
                         !.monthSky = prev.monthSky, !.monthGround = prev.monthGround]
    ELSE rec

NoRecord == [solarDate |-> NONE]

\* the whole function: the error raised (or OK), the id of the row found and
\* the record object returned (the session's object for that row, as modified)
_get_manse_record(db, birth_date, birth_time, birth_calendar) ==
    IF birth_calendar # SOLAR /\ ~startswith(birth_calendar, "lunar")
    THEN [err |-> "BAD_REQUEST", id |-> NONE, record |-> NoRecord]
    ELSE LET hits == manse_query(db, search_date(birth_date, birth_time), birth_calendar)
         IN  IF hits = {}
             THEN [err |-> "NOT_FOUND", id |-> NONE, record |-> NoRecord]
             ELSE LET id == CHOOSE i \in hits : \A j \in hits : i <= j
                  IN  [err |-> "OK", id |-> id,
                       record |-> season_corrected(db, db[id], birth_date, birth_time)]

(***************************************************************************)
(* The calendar table as loaded.  Row d (1..n) is solar date d; its        *)
(* lunar date is d - 1 and the last row lies in a leap month.  The rows in *)
(* `seasons` are days on which a solar term starts (at noon); year and     *)
(* month pillars advance on each such day, the day pillar advances daily.  *)
(***************************************************************************)
SeasonMinute == 12 * 60

InitialManses(n, seasons) == [d \in 1..n |->
    LET k == Cardinality({x \in seasons : x <= d})
    IN  [solarDate |-> d,
         lunarDate |-> d - 1,
         leapMonth |-> IF d = n THEN 1 ELSE 0,
         seasonStartTime |-> IF d \in seasons THEN combine(d, SeasonMinute) ELSE NONE,
         yearSky |-> Stems10[(k % 10) + 1],
         yearGround |-> Branches12[(k % 12) + 1],
         monthSky |-> Stems10[((k + 2) % 10) + 1],
         monthGround |-> Branches12[((k + 2) % 12) + 1],
         daySky |-> Stems10[(d % 10) + 1],
         dayGround |-> Branches12[(d % 12) + 1]]]

\* birth dates requests may carry: one day before the table, and its days
Dates == 0..NumDays

ResolveDates == 0..NumResolveDays

\* calendar tags requests may carry
Calendars == {SOLAR, LUNAR, LUNAR_LEAP, <<"lunar", "_x">>, <<"julian">>}

(***************************************************************************)
(* calculate_saju_and_save (saju_service.py 208-277), always called with   *)
(* commit = True.  `user` is the session's user object, `db` the stored    *)
(* calendar table.  The result holds the error raised (or OK), the user    *)
(* object and the calendar table as stored after the commit of line 274,   *)
(* which flushes every object of the session that was modified: the user   *)
(* and the calendar record _get_manse_record has assigned to.  The         *)
(* resolver is called once (line 231); m names what that call returned.    *)
(***************************************************************************)
NoPillars == [f \in PillarFields |-> "none"]

saju_failed(e, user, db) ==
    [err |-> e, user |-> user, manses |-> db, time_pillar |-> UnknownPillar,
     saju_pillars |-> NoPillars, raw |-> NoScores, scores |-> NoScores]

calculate_saju_and_save(user, db) ==
    IF user.birth_date = NONE THEN saju_failed("BAD_REQUEST", user, db)
    ELSE LET m == CHOOSE found \in {_get_manse_record(db, user.birth_date, user.birth_time,
                                                       user.birth_calendar)} : TRUE
             manse_record == m.record
         IN  IF m.err # "OK" THEN saju_failed(m.err, user, db)
             ELSE LET time_pillar ==
                          IF user.birth_time # NONE
                          THEN get_time_pillar(manse_record.daySky, user.birth_time)
                          ELSE UnknownPillar
                      saju_pillars ==
                          [year_sky |-> manse_record.yearSky,
                           year_ground |-> manse_record.yearGround,
                           month_sky |-> manse_record.monthSky,
                           month_ground |-> manse_record.monthGround,
                           day_sky |-> manse_record.daySky,
                           day_ground |-> manse_record.dayGround,
                           time_sky |-> time_pillar.time_sky,
                           time_ground |-> time_pillar.time_ground]
                      o == calculate_oheng_score(saju_pillars)
                  IN  IF o.err # "OK" THEN saju_failed(o.err, user, db)
                      ELSE [err |-> "OK",
                            user |-> [user EXCEPT !.oheng = o.scores,
                                                  !.day_sky = saju_pillars.day_sky],
                            manses |-> [db EXCEPT ![m.id] = manse_record],
                            time_pillar |-> time_pillar,
                            saju_pillars |-> saju_pillars,
                            raw |-> o.raw,
                            scores |-> o.scores]

(***************************************************************************)
(* The request handlers that run the calculation.  Each request has its    *)
(* own database session (core/db.py, get_db): what a handler has not       *)
(* committed when it raises is discarded.                                  *)
(***************************************************************************)
\* a birth date / birth time string that does not parse
INVALID == 0 - 2

Nicknames == {"nick1"}

Genders == {"M", "F"}

\* birth times requests may carry: midnight (before the season start at noon)
\* and 23:30
Times == {0, LATE_NIGHT}

\* calendar tags requests may carry
RequestCalendars == {SOLAR, LUNAR, <<"julian">>}

\* User(...) of auth.py 48-56 / 143-151: the row as first committed
new_user(data) ==
    [exists |-> TRUE, nickname |-> data.nickname, gender |-> data.gender,
     birth_date |-> data.birth_date, birth_time |-> data.birth_time,
     birth_calendar |-> data.birth_calendar, oheng |-> NoScores, day_sky |-> "none"]

\* what a handler answers: the error kind the client gets (or OK), and the error
\* calculate_saju_and_save raised (OK, or NOT_RUN when it was not called)
answer(fn, status, core_err) ==
    [done |-> TRUE, fn |-> fn, err |-> status, core_err |-> core_err]

\* the request bodies of POST /auth/signup and POST /auth/guest
RegisterData ==
    [nickname : Nicknames, gender : Genders,
     birth_date : Dates \cup {INVALID},
     birth_time : Times \cup {NONE, INVALID},
     birth_calendar : RequestCalendars]

\* auth.py 58-72 / 141-161: add, commit, calculate, commit; on any exception
\* roll back and answer 500
signup(fn, uid, data) ==
    LET user == new_user(data)
        r == calculate_saju_and_save(user, manses)
    IN  IF r.err = "OK"
        THEN /\ users' = [users EXCEPT ![uid] = r.user]
             /\ manses' = r.manses
             /\ ret' = answer(fn, "OK", "OK")
        ELSE /\ users' = [users EXCEPT ![uid] = user]
             /\ manses' = manses
             /\ ret' = answer(fn, "INTERNAL_SERVER_ERROR", r.err)

\* POST /auth/signup (auth.py 16-84)
register(uid, data) ==
    /\ call' = [fn |-> "register", uid |-> uid]
    /\ UNCHANGED <<manses0, absent_pairs, tie_up, service_vars>>
    /\ IF users[uid].exists
       THEN ret' = answer("register", "CONFLICT", "NOT_RUN") /\ UNCHANGED <<users, manses>>
       ELSE IF data.birth_date = INVALID \/ data.birth_time = INVALID
       THEN ret' = answer("register", "BAD_REQUEST", "NOT_RUN") /\ UNCHANGED <<users, manses>>
       ELSE signup("register", uid, data)

\* POST /auth/guest (auth.py 113-173)
register_guest(uid, data) ==
    /\ call' = [fn |-> "register_guest", uid |-> uid]
    /\ UNCHANGED <<manses0, absent_pairs, tie_up, service_vars>>
    /\ IF users[uid].exists
       THEN ret' = answer("register_guest", "OK", "NOT_RUN") /\ UNCHANGED <<users, manses>>
       ELSE IF data.birth_date = INVALID \/ data.birth_time = INVALID
       THEN ret' = answer("register_guest", "BAD_REQUEST", "NOT_RUN") /\ UNCHANGED <<users, manses>>
       ELSE signup("register_guest", uid, data)

\* the request bodies of PATCH /users/me; "none" / NONE is a field left out.
\* birth_hm stands for birth_hour and birth_minute (both given, or neither).
\* A body carries a nickname and possibly a time, or any of the other fields.
UpdateData ==
    [nickname : Nicknames, gender : {"none"},
     birth_date : {NONE},
     birth_calendar : {<<>>},
     time_unknown : {"none", "true"},
     birth_hm : {NONE}]
    \cup
    [nickname : Nicknames, gender : {"none"},
     birth_date : {NONE},
     birth_calendar : {<<>>},
     time_unknown : {"false"},
     birth_hm : Times]
    \cup
    [nickname : {"none"}, gender : Genders \cup {"none"},
     birth_date : Dates \cup {NONE, INVALID},
     birth_calendar : RequestCalendars \cup {<<>>},
     time_unknown : {"none", "true"},
     birth_hm : {NONE}]
    \cup
    [nickname : {"none"}, gender : Genders \cup {"none"},
     birth_date : Dates \cup {NONE, INVALID},
     birth_calendar : RequestCalendars \cup {<<>>},
     time_unknown : {"false"},
     birth_hm : Times \cup {NONE, INVALID}]

\* users.py 235-237
new_time(data) ==
    IF data.time_unknown = "false" /\ data.birth_hm # NONE THEN data.birth_hm ELSE NONE

\* users.py 212-241: the user object after the assignments, and whether the
\* saju data changed
patched_user(user, data) ==
    LET u1 == IF data.nickname # "none" THEN [user EXCEPT !.nickname = data.nickname]
              ELSE user
        g == data.gender # "none" /\ u1.gender # data.gender
        u2 == IF g THEN [u1 EXCEPT !.gender = data.gender] ELSE u1
        d == data.birth_date # NONE /\ u2.birth_date # data.birth_date
        u3 == IF d THEN [u2 EXCEPT !.birth_date = data.birth_date] ELSE u2
        c == data.birth_calendar # <<>> /\ u3.birth_calendar # data.birth_calendar
        u4 == IF c THEN [u3 EXCEPT !.birth_calendar = data.birth_calendar] ELSE u3
        t == u4.birth_time # new_time(data)
        u5 == IF t THEN [u4 EXCEPT !.birth_time = new_time(data)] ELSE u4
    IN  [user |-> u5, is_saju_data_changed |-> g \/ d \/ c \/ t]

\* PATCH /users/me (users.py 197-257)
patch_my_info(uid, data) ==
    /\ call' = [fn |-> "patch_my_info", uid |-> uid]
    /\ UNCHANGED <<manses0, absent_pairs, tie_up, service_vars>>
    /\ IF ~users[uid].exists
       THEN ret' = answer("patch_my_info", "UNAUTHORIZED", "NOT_RUN") /\ UNCHANGED <<users, manses>>
       ELSE IF data.birth_date = INVALID \/ new_time(data) = INVALID
       THEN ret' = answer("patch_my_info", "BAD_REQUEST", "NOT_RUN") /\ UNCHANGED <<users, manses>>
       ELSE LET p == patched_user(users[uid], data)
                r == calculate_saju_and_save(p.user, manses)
            IN  IF ~p.is_saju_data_changed
                THEN /\ users' = [users EXCEPT ![uid] = p.user]
                     /\ manses' = manses
                     /\ ret' = answer("patch_my_info", "OK", "NOT_RUN")
                ELSE IF r.err = "OK"
                THEN /\ users' = [users EXCEPT ![uid] = r.user]
                     /\ manses' = r.manses
                     /\ ret' = answer("patch_my_info", "OK", "OK")
                ELSE /\ ret' = answer("patch_my_info", r.err, r.err)
                     /\ UNCHANGED <<users, manses>>

(***************************************************************************)
(* classify_and_determine_recommendation (saju_service.py 337-369).  A     *)
(* profile handed to the classifier maps each element to a percentage,     *)
(* counted here in hundredths of a percent (the daily adjustment rounds to *)
(* two decimals).  The lists follow the order of the profile's keys.       *)
(***************************************************************************)
\* hundredths per percentage point
PerPercent == 100

THRESHOLD_MUHANG == 5 * PerPercent

THRESHOLD_MAX_MIN_DIFF == 10 * PerPercent

\* min(vals), max(vals)
min_val(oheng_scores) ==
    CHOOSE v \in {oheng_scores[e] : e \in Oheng} : \A e \in Oheng : v <= oheng_scores[e]

max_val(oheng_scores) ==
    CHOOSE v \in {oheng_scores[e] : e \in Oheng} : \A e \in Oheng : v >= oheng_scores[e]

\* variant of names_with: the names whose value lies beyond v
names_with_strict(oheng_scores, v) ==
    SelectSeq(OHENG_KOREAN_KEYS, LAMBDA name : oheng_scores[name] < v)

\* [name for name, val in oheng_scores.items() if val == v]
names_with(oheng_scores, v) ==
    SelectSeq(OHENG_KOREAN_KEYS, LAMBDA name : oheng_scores[name] = v)

\* variant of oheng_type: the spread is tested before the minimum
oheng_type_spread_first(oheng_scores) ==
    IF max_val(oheng_scores) - min_val(oheng_scores) <= THRESHOLD_MAX_MIN_DIFF
    THEN "balanced"
    ELSE IF min_val(oheng_scores) < THRESHOLD_MUHANG THEN "deficient"
    ELSE "skewed"

\* lines 353-359
oheng_type(oheng_scores) ==
    LET max_diff == max_val(oheng_scores) - min_val(oheng_scores)
    IN  IF min_val(oheng_scores) < THRESHOLD_MUHANG THEN "deficient"
        ELSE IF max_diff <= THRESHOLD_MAX_MIN_DIFF THEN "balanced"
        ELSE "skewed"

\* variant of classify_and_determine_recommendation: one name per list
classify_and_determine_recommendation_single(oheng_scores) ==
    [oheng_type |-> oheng_type(oheng_scores),
     primary_supplement_oheng |->
        <<names_with(oheng_scores, min_val(oheng_scores))[1]>>,
     secondary_control_oheng |->
        <<names_with(oheng_scores, max_val(oheng_scores))[1]>>]

classify_and_determine_recommendation(oheng_scores) ==
    [oheng_type |-> oheng_type(oheng_scores),
     primary_supplement_oheng |-> names_with(oheng_scores, min_val(oheng_scores)),
     secondary_control_oheng |-> names_with(oheng_scores, max_val(oheng_scores))]

(***************************************************************************)
(* define_oheng_messages (saju_service.py 372-494).  A text is the         *)
(* sequence of its parts; a sentence of the advice is a record of the      *)
(* parts that vary.                                                        *)
(***************************************************************************)
\* the first two foods of each element's 'food' entry
OHENG_ATTRIBUTES == [k \in Oheng |->
    CASE k = "wood"  -> <<"vegetables", "sour">>
      [] k = "fire"  -> <<"spicy", "bitter">>
      [] k = "earth" -> <<"grains", "sweet">>
      [] k = "metal" -> <<"meat", "crispy">>
      [] k = "water" -> <<"seafood", "salty">>]

\* indexes of the closing sentences random.choice draws from
CLOSING_MESSAGES == 1..5

COUNTER_OHENG_MAP == [k \in Oheng |->
    CASE k = "wood"  -> "metal"
      [] k = "fire"  -> "water"
      [] k = "earth" -> "wood"
      [] k = "metal" -> "fire"
      [] k = "water" -> "earth"]

\* lines 398-403: the first two foods joined by a middle dot
_get_food_info(oheng_name) ==
    IF oheng_name \in DOMAIN OHENG_ATTRIBUTES
    THEN <<OHENG_ATTRIBUTES[oheng_name][1], ".", OHENG_ATTRIBUTES[oheng_name][2]>>
    ELSE <<"recommended food">>

\* ', '.join(items)
RECURSIVE join_comma(_)
join_comma(items) ==
    IF items = <<>> THEN <<>>
    ELSE IF Len(items) = 1 THEN <<items[1]>>
    ELSE <<items[1], ", ">> \o join_comma(Tail(items))

\* lines 406-409: "A, B and C"
_format_list(items) ==
    IF items = <<>> THEN <<>>
    ELSE IF Len(items) = 1 THEN <<items[1]>>
    ELSE join_comma(SubSeq(items, 1, Len(items) - 1)) \o <<" and ", items[Len(items)]>>

\* x in items
contains(items, x) == \E i \in 1..Len(items) : items[i] = x

\* abs
abs(n) == IF n < 0 THEN 0 - n ELSE n

\* variant of headline_of: the balanced headline always names the weakest
headline_of_weakest(lacking, strong, type, final_oheng_scores) ==
    IF type = "balanced"
    THEN [kind |-> "stable", target_name |-> lacking[1], state |-> "weakest",
          strong |-> <<>>, lacking |-> <<>>]
    ELSE [kind |-> "strong and lacking", target_name |-> "", state |-> "",
          strong |-> _format_list(strong), lacking |-> _format_list(lacking)]

\* lines 424-450
headline_of(lacking, strong, type, final_oheng_scores) ==
    IF type = "balanced"
    THEN LET t1 == IF lacking # <<>> THEN lacking[1] ELSE ""
             t2 == IF strong # <<>> THEN strong[1] ELSE ""
             score(t) == IF t \in DOMAIN final_oheng_scores THEN final_oheng_scores[t] ELSE 0
             gap_lacking == abs(score(t1) - 20 * PerPercent)
             gap_strong == abs(score(t2) - 20 * PerPercent)
             target_name == IF t1 # "" /\ t2 # ""
                            THEN (IF gap_lacking >= gap_strong THEN t1 ELSE t2)
                            ELSE (IF t1 # "" THEN t1 ELSE t2)
         IN  [kind |-> "stable", target_name |-> target_name,
              state |-> IF contains(lacking, target_name) THEN "weakest"
                        ELSE "slightly strong",
              strong |-> <<>>, lacking |-> <<>>]
    ELSE IF lacking # <<>> /\ strong # <<>>
    THEN [kind |-> "strong and lacking", target_name |-> "", state |-> "",
          strong |-> _format_list(strong), lacking |-> _format_list(lacking)]
    ELSE IF lacking # <<>>
    THEN [kind |-> "lacking", target_name |-> "", state |-> "",
          strong |-> <<>>, lacking |-> _format_list(lacking)]
    ELSE [kind |-> "strong", target_name |-> "", state |-> "",
          strong |-> _format_list(strong), lacking |-> <<>>]

\* variant of control_ohengs_of: suppressors that are themselves strong are
\* left out
control_ohengs_of_outside(strong) ==
    SelectSeq([i \in 1..Len(strong) |-> COUNTER_OHENG_MAP[strong[i]]],
              LAMBDA c : \A i \in 1..Len(strong) : strong[i] # c)

\* lines 458-462
control_ohengs_of(strong) ==
    LET known == SelectSeq(strong, LAMBDA s : s \in DOMAIN COUNTER_OHENG_MAP)
    IN  [i \in 1..Len(known) |-> COUNTER_OHENG_MAP[known[i]]]

\* how often x occurs in items
count(items, x) == Cardinality({i \in 1..Len(items) : items[i] = x})

\* variant of is_overlapped: any strong element countered by the lacking one
is_overlapped_any(lacking, strong, control_ohengs) ==
    Len(lacking) = 1 /\ contains(control_ohengs, lacking[1])

\* line 465
is_overlapped(lacking, strong, control_ohengs) ==
    Len(lacking) = 1 /\ Len(strong) = 1 /\ lacking[1] = control_ohengs[1]

NoText == <<>>

\* lines 467-471: the one sentence of the overlapped case
merged_advice(lacking, strong, closing) ==
    <<[kind |-> "merged", food |-> _get_food_info(lacking[1]),
       lacking |-> <<lacking[1]>>, strong |-> <<strong[1]>>, control |-> NoText,
       closing |-> closing]>>

\* lines 476-482: the sentence about the lacking elements
supplement_advice(lacking) ==
    IF lacking = <<>> THEN <<>>
    ELSE <<[kind |-> "supplement",
            food |-> IF Len(lacking) = 1 THEN _get_food_info(lacking[1]) ELSE NoText,
            lacking |-> _format_list(lacking), strong |-> NoText, control |-> NoText,
            closing |-> 0]>>

\* lines 485-492: the sentence about the strong elements
control_advice(strong, control_ohengs, closing) ==
    IF strong = <<>> THEN <<>>
    ELSE <<[kind |-> "control",
            food |-> IF Len(strong) = 1 THEN _get_food_info(control_ohengs[1]) ELSE NoText,
            lacking |-> NoText, strong |-> _format_list(strong),
            control |-> _format_list(control_ohengs), closing |-> closing]>>

\* dict(recom_counter) of the general case
recom_counter(lacking, strong, control_ohengs) ==
    LET counted == IF strong = <<>> THEN <<>> ELSE control_ohengs
        names == {lacking[i] : i \in 1..Len(lacking)} \cup {counted[i] : i \in 1..Len(counted)}
    IN  [x \in names |-> count(lacking, x) + count(counted, x)]

NoMessages ==
    [err |-> "INDEX_ERROR", headline |-> NoText, advice |-> NoText,
     recom_weights |-> <<>>, control_ohengs |-> NoText, strong |-> NoText]

\* the whole function; `closing` is the index random.choice returned.  The
\* error is the IndexError of control_ohengs[0] on an empty list.
define_oheng_messages(lacking, strong, type, final_oheng_scores, closing) ==
    LET control_ohengs == control_ohengs_of(strong)
    IN  IF Len(strong) = 1 /\ control_ohengs = <<>> THEN NoMessages
        ELSE [err |-> "OK",
              headline |-> headline_of(lacking, strong, type, final_oheng_scores),
              advice |-> IF is_overlapped(lacking, strong, control_ohengs)
                         THEN merged_advice(lacking, strong, closing)
                         ELSE supplement_advice(lacking)
                              \o control_advice(strong, control_ohengs, closing),
              recom_weights |-> IF is_overlapped(lacking, strong, control_ohengs)
                                THEN [x \in {lacking[1]} |-> 1]
                                ELSE recom_counter(lacking, strong, control_ohengs),
              control_ohengs |-> control_ohengs,
              strong |-> strong]

(***************************************************************************)
(* calculate_today_saju_iljin (saju_service.py 280-332) and                *)
(* get_today_saju_analysis (497-530).  The stored percentages are counted  *)
(* in tenths of a percent, the returned ones in hundredths.                *)
(***************************************************************************)
\* tenths per percentage point
Tenths == 10

\* get_five_circle_from_char of saju/saju_data.py, written from the
\* specification (section 4.4): a stem maps to its element, a branch to the
\* element of its largest sub-component; "none" for any other character
BranchElement == [b \in AllBranches |->
    LET cs == get_jijangan[b]
        i == CHOOSE i \in 1..Len(cs) : \A j \in 1..Len(cs) : cs[j].rate <= cs[i].rate
    IN  cs[i].fiveCircle]

get_five_circle_from_char(char) ==
    IF char \in AllStems THEN StemElement[char]
    ELSE IF char \in AllBranches THEN BranchElement[char]
    ELSE "none"

\* line 317, in tenths of a percent
WEIGHTS == [sky |-> 20 * Tenths, ground |-> 20 * Tenths]

\* lines 304-307: float(getattr(user, db_col) or 0.0)
current_scores_of(user) ==
    [k \in Oheng |-> IF user.oheng[k] = NONE THEN 0 ELSE user.oheng[k]]

\* variant of today_rows: the latest row stands in when today has none
today_rows_latest(db, today) ==
    IF \E i \in DOMAIN db : db[i].solarDate = today
    THEN {i \in DOMAIN db : db[i].solarDate = today}
    ELSE {i \in DOMAIN db : \A j \in DOMAIN db : db[j].solarDate <= db[i].solarDate}

\* lines 310-312: ids of the rows whose solar date is today
today_rows(db, today) == {i \in DOMAIN db : db[i].solarDate = today}

\* variant of boosted: the two weights go to the day stem's element
boosted_stem_only(current_scores, today_manse) ==
    [k \in Oheng |->
        current_scores[k]
        + (IF get_five_circle_from_char(today_manse.daySky) = k
           THEN WEIGHTS.sky + WEIGHTS.ground ELSE 0)]

\* lines 318-324: the scores with today's weights added
boosted(current_scores, today_manse) ==
    [k \in Oheng |->
        current_scores[k]
        + (IF get_five_circle_from_char(today_manse.daySky) = k THEN WEIGHTS.sky ELSE 0)
        + (IF get_five_circle_from_char(today_manse.dayGround) = k THEN WEIGHTS.ground ELSE 0)]

\* lines 327-332: round((v / total_sum) * 100, 2), in hundredths of a percent
today_percentages(scores) ==
    [k \in Oheng |-> round_nearest(scores[k] * 100 * PerPercent, SumScores(scores))]

today_failed(e) == [err |-> e, raw |-> NoScores, scores |-> NoScores]

\* the whole function: the error raised (or OK), the scores before line 327
\* (raw) and the returned percentages (scores)
calculate_today_saju_iljin(user, db, today) ==
    IF \A k \in Oheng : user.oheng[k] = NONE THEN today_failed("INTERNAL_SERVER_ERROR")
    ELSE IF user.day_sky = "none" THEN today_failed("INTERNAL_SERVER_ERROR")
    ELSE IF today_rows(db, today) = {} THEN today_failed("NOT_FOUND")
    ELSE LET today_manse == db[CHOOSE i \in today_rows(db, today) :
                                  \A j \in today_rows(db, today) : i <= j]
             scores == boosted(current_scores_of(user), today_manse)
         IN  IF SumScores(scores) = 0 THEN today_failed("ZERO_DIVISION")
             ELSE [err |-> "OK", raw |-> scores, scores |-> today_percentages(scores)]

NoAnalysis ==
    [lacking_oheng |-> NoText, strong_ohengs |-> NoText, control_ohengs |-> NoText,
     oheng_type |-> "none", oheng_scores |-> NoScores, headline |-> NoText,
     advice |-> NoText, recom_weights |-> <<>>]

\* variant of get_today_saju_analysis: today's scores are written to the user
\* row and committed
get_today_saju_analysis_saving(uid, rows, db, today, closing) ==
    IF ~rows[uid].exists
    THEN [err |-> "NOT_FOUND", result |-> NoAnalysis, users |-> rows]
    ELSE IF calculate_today_saju_iljin(rows[uid], db, today).err # "OK"
    THEN [err |-> calculate_today_saju_iljin(rows[uid], db, today).err,
          result |-> NoAnalysis, users |-> rows]
    ELSE [err |-> "OK",
          result |-> [NoAnalysis EXCEPT !.oheng_scores =
                          calculate_today_saju_iljin(rows[uid], db, today).scores],
          users |-> [rows EXCEPT ![uid].oheng =
                          calculate_today_saju_iljin(rows[uid], db, today).raw]]

\* the whole function: the error raised (or OK), the dictionary returned and
\* the Users table as stored after the request (nothing is assigned to the
\* user object and nothing is committed)
get_today_saju_analysis(uid, rows, db, today, closing) ==
    IF ~rows[uid].exists
    THEN [err |-> "NOT_FOUND", result |-> NoAnalysis, users |-> rows]
    ELSE LET t == calculate_today_saju_iljin(rows[uid], db, today)
             oheng_scores == t.scores
             analysis == classify_and_determine_recommendation(oheng_scores)
             m == define_oheng_messages(analysis.primary_supplement_oheng,
                                        analysis.secondary_control_oheng,
                                        analysis.oheng_type, oheng_scores, closing)
         IN  IF t.err # "OK" THEN [err |-> t.err, result |-> NoAnalysis, users |-> rows]
             ELSE IF m.err # "OK" THEN [err |-> m.err, result |-> NoAnalysis, users |-> rows]
             ELSE [err |-> "OK",
                   result |-> [lacking_oheng |-> analysis.primary_supplement_oheng,
                               strong_ohengs |-> m.strong,
                               control_ohengs |-> m.control_ohengs,
                               oheng_type |-> analysis.oheng_type,
                               oheng_scores |-> oheng_scores,
                               headline |-> m.headline,
                               advice |-> m.advice,
                               recom_weights |-> m.recom_weights],
                   users |-> rows]

(***************************************************************************)
(* SpecScore: calculate_oheng_score applied to every pillar set over the   *)
(* bounded character sets.                                                 *)
(***************************************************************************)
\* one stem per element, in element order
ScoreStems == {Stems10[2 * i - 1] : i \in 1..NumScoreStems} \cup {"none"}

ScoreBranches == {Branches12[i] : i \in 1..NumScoreBranches} \cup {"none"}

\* no call made yet / nothing returned yet
NoCall == [fn |-> "none"]

NoRet == [done |-> FALSE, err |-> "OK"]

NoUser == [exists |-> FALSE]

Uids == {"u1"}

InitScore ==
    /\ manses = <<>>
    /\ manses0 = <<>>
    /\ users = [u \in Uids |-> NoUser]
    /\ absent_pairs = {}
    /\ tie_up \in BOOLEAN
    /\ \E sky \in [SkyFields -> ScoreStems], ground \in [GroundFields -> ScoreBranches] :
         call = [fn |-> "calculate_oheng_score",
                 saju_pillars |-> [f \in PillarFields |->
                     IF f \in SkyFields THEN sky[f] ELSE ground[f]]]
    /\ ret = NoRet
    /\ NoService

\* one call of calculate_oheng_score; raw is the score table before section 5
ScoreCall ==
    /\ call.fn = "calculate_oheng_score"
    /\ ~ret.done
    /\ LET r == calculate_oheng_score(call.saju_pillars)
       IN  ret' = [done |-> TRUE, err |-> r.err, raw |-> r.raw, scores |-> r.scores,
                   saju_pillars |-> r.saju_pillars]
    /\ UNCHANGED <<manses, manses0, users, absent_pairs, tie_up, call, service_vars>>

NextScore == ScoreCall

SpecScore == InitScore /\ [][NextScore]_vars

(***************************************************************************)
(* SpecTime: get_time_pillar applied to every day stem and every minute of *)
(* the day (and an unknown time), with a complete or an incomplete         *)
(* composition table.                                                      *)
(***************************************************************************)
\* the composition table is complete, or lacks these entries
AbsentChoices == {{}, {<<"byeong", 6>>, <<"jeong", 0>>}}

InitTime ==
    /\ manses = <<>>
    /\ manses0 = <<>>
    /\ users = [u \in Uids |-> NoUser]
    /\ absent_pairs \in AbsentChoices
    /\ tie_up \in BOOLEAN
    /\ \E day_sky \in AllStems \cup {"none"}, birth_time \in {NONE} \cup (0..(MinutesPerDay - 1)) :
         call = [fn |-> "get_time_pillar", day_sky |-> day_sky, birth_time |-> birth_time]
    /\ ret = NoRet
    /\ NoService

TimeCall ==
    /\ call.fn = "get_time_pillar"
    /\ ~ret.done
    /\ ret' = [done |-> TRUE, err |-> "OK",
               time_index |-> IF call.birth_time = NONE THEN NONE
                              ELSE time_index(call.birth_time),
               time_pillar |-> get_time_pillar(call.day_sky, call.birth_time)]
    /\ UNCHANGED <<manses, manses0, users, absent_pairs, tie_up, call, service_vars>>

NextTime == TimeCall

SpecTime == InitTime /\ [][NextTime]_vars

(***************************************************************************)
(* SpecResolve: _get_manse_record applied to every birth date, calendar    *)
(* tag and a set of birth times around midnight, the season start and the  *)
(* 23:30 boundary, over every choice of season-start days.                 *)
(***************************************************************************)
ResolveTimes ==
    {NONE} \cup (0..2) \cup ((SeasonMinute - 2)..(SeasonMinute + 2))
           \cup ((LATE_NIGHT - 30)..(MinutesPerDay - 1))

InitResolve ==
    /\ \E seasons \in SUBSET (1..NumResolveDays) :
         manses = InitialManses(NumResolveDays, seasons)
    /\ manses0 = manses
    /\ users = [u \in Uids |-> NoUser]
    /\ absent_pairs = {}
    /\ tie_up \in BOOLEAN
    /\ \E d \in ResolveDates, t \in ResolveTimes, c \in Calendars :
         call = [fn |-> "_get_manse_record",
                 birth_date |-> d, birth_time |-> t, birth_calendar |-> c]
    /\ ret = NoRet
    /\ NoService

ResolveCall ==
    /\ call.fn = "_get_manse_record"
    /\ ~ret.done
    /\ LET r == _get_manse_record(manses, call.birth_date, call.birth_time,
                                  call.birth_calendar)
       IN  ret' = [done |-> TRUE, err |-> r.err, id |-> r.id, record |-> r.record]
    /\ UNCHANGED <<manses, manses0, users, absent_pairs, tie_up, call, service_vars>>

NextResolve == ResolveCall

SpecResolve == InitResolve /\ [][NextResolve]_vars

(***************************************************************************)
(* Spec: the stored tables under any sequence of signup, guest signup and  *)
(* profile update requests.                                                *)
(***************************************************************************)
\* the last day of the table carries a season start, or no day does
Init ==
    /\ \E seasons \in {{}, {NumDays}} : manses = InitialManses(NumDays, seasons)
    /\ manses0 = manses
    /\ users = [u \in Uids |-> NoUser]
    /\ absent_pairs = {}
    /\ tie_up \in BOOLEAN
    /\ call = NoCall
    /\ ret = NoRet
    /\ NoService

Next ==
    \/ \E uid \in Uids, data \in RegisterData : register(uid, data)
    \/ \E uid \in Uids, data \in RegisterData : register_guest(uid, data)
    \/ \E uid \in Uids, data \in UpdateData : patch_my_info(uid, data)

Spec == Init /\ [][Next]_vars

(***************************************************************************)
(* SpecSaju: one call of calculate_saju_and_save on a user object whose    *)
(* birth data range over every date, calendar tag and a birth time before  *)
(* / at the season start, at 23:30 or unknown.  The stored row has either  *)
(* no percentages yet (signup) or those of an earlier calculation          *)
(* (profile update).  What the call has not committed when it raises is    *)
(* discarded by its caller.                                                *)
(***************************************************************************)
\* percentages and day stem a row may hold from an earlier calculation
EarlierScores == [e \in Oheng |-> TOTAL_SCORE * 2]

StoredResults ==
    {[oheng |-> NoScores, day_sky |-> "none"],
     [oheng |-> EarlierScores, day_sky |-> "gap"]}

InitSaju ==
    /\ \E seasons \in SUBSET (1..NumResolveDays) :
         manses = InitialManses(NumResolveDays, seasons)
    /\ manses0 = manses
    /\ absent_pairs \in AbsentChoices
    /\ tie_up \in BOOLEAN
    /\ \E d \in ResolveDates \cup {NONE}, t \in Times \cup {SeasonMinute, NONE},
          c \in Calendars, g \in Genders, n \in Nicknames, st \in StoredResults :
         LET row == [exists |-> TRUE, nickname |-> n, gender |-> g,
                     birth_date |-> d, birth_time |-> t, birth_calendar |-> c,
                     oheng |-> st.oheng, day_sky |-> st.day_sky]
         IN  /\ users = [u \in Uids |-> row]
             /\ call = [fn |-> "calculate_saju_and_save", uid |-> CHOOSE u \in Uids : TRUE]
    /\ ret = NoRet
    /\ NoService

SajuCall ==
    /\ call.fn = "calculate_saju_and_save"
    /\ ~ret.done
    /\ LET r == calculate_saju_and_save(users[call.uid], manses)
       IN  /\ users' = [users EXCEPT ![call.uid] = r.user]
           /\ manses' = r.manses
           /\ ret' = [done |-> TRUE, err |-> r.err, time_pillar |-> r.time_pillar,
                      saju_pillars |-> r.saju_pillars, raw |-> r.raw,
                      scores |-> r.scores]
    /\ UNCHANGED <<manses0, absent_pairs, tie_up, call, service_vars>>

NextSaju == SajuCall

SpecSaju == InitSaju /\ [][NextSaju]_vars

(***************************************************************************)
(* SpecIdem: calculate_oheng_score called twice in a row on the same       *)
(* dictionary; the second call is given the dictionary as the first call   *)
(* left it.                                                                *)
(***************************************************************************)
ScoreRepeat ==
    /\ call.fn = "calculate_oheng_score"
    /\ ret.done
    /\ "first" \notin DOMAIN ret
    /\ LET r == calculate_oheng_score(ret.saju_pillars)
       IN  ret' = [done |-> TRUE, err |-> r.err, raw |-> r.raw, scores |-> r.scores,
                   saju_pillars |-> r.saju_pillars,
                   first |-> [err |-> ret.err, scores |-> ret.scores]]
    /\ UNCHANGED <<manses, manses0, users, absent_pairs, tie_up, call, service_vars>>

NextIdem == ScoreCall \/ ScoreRepeat

SpecIdem == InitScore /\ [][NextIdem]_vars

(***************************************************************************)
(* SpecClassify: classify_and_determine_recommendation followed by         *)
(* define_oheng_messages, applied to every profile over a set of values    *)
(* around the thresholds and to the profiles the specification names.      *)
(***************************************************************************)
\* profile values, in quarters of a percent: 0, 4.75, 5, 15, 15.25, 20, ...
ValueQuarters == <<0, 19, 20, 60, 61, 80, 100, 40>>

ClassifyValues == {(ValueQuarters[i] * PerPercent) \div 4 : i \in 1..NumClassifyValues}

profile(w, f, e, m, a) ==
    [k \in Oheng |->
        CASE k = "wood"  -> w * PerPercent
          [] k = "fire"  -> f * PerPercent
          [] k = "earth" -> e * PerPercent
          [] k = "metal" -> m * PerPercent
          [] k = "water" -> a * PerPercent]

ExampleProfiles ==
    {profile(3, 24, 24, 24, 25), profile(18, 19, 20, 21, 22), profile(5, 5, 5, 5, 80),
     profile(19, 19, 19, 19, 24)}

InitClassify ==
    /\ manses = <<>>
    /\ manses0 = <<>>
    /\ users = [u \in Uids |-> NoUser]
    /\ absent_pairs = {}
    /\ tie_up \in BOOLEAN
    /\ \E p \in [Oheng -> ClassifyValues] \cup ExampleProfiles :
         call = [fn |-> "classify_and_determine_recommendation", oheng_scores |-> p]
    /\ ret = NoRet
    /\ NoService

\* the two calls of get_today_saju_analysis, lines 510-518
ClassifyCall ==
    /\ call.fn = "classify_and_determine_recommendation"
    /\ ~ret.done
    /\ \E closing \in CLOSING_MESSAGES :
         LET analysis == classify_and_determine_recommendation(call.oheng_scores)
             m == define_oheng_messages(analysis.primary_supplement_oheng,
                                        analysis.secondary_control_oheng,
                                        analysis.oheng_type, call.oheng_scores, closing)
         IN  ret' = [done |-> TRUE, err |-> m.err, analysis |-> analysis, messages |-> m]
    /\ UNCHANGED <<manses, manses0, users, absent_pairs, tie_up, call, service_vars>>

NextClassify == ClassifyCall

SpecClassify == InitClassify /\ [][NextClassify]_vars

(***************************************************************************)
(* SpecToday: requests for today's analysis (api/saju.py 15-27 calling     *)
(* get_today_saju_analysis) against a stored user and a calendar table     *)
(* whose first row carries today's day pillar.  The date date.today()      *)
(* returns is an input of each request.                                    *)
(***************************************************************************)
\* day pillars the row of the first date may carry: wood/wood, wood/earth,
\* fire/water
TodayPillars == {<<"gap", "in">>, <<"eul", "chuk">>, <<"byeong", "ja">>}

\* the table's dates and the day after its last one
TodayDates == 1..(NumDays + 1)

\* percentages a row may hold, in tenths of a percent: none (with no day
\* stem, a row whose calculation failed), 20.0 each, and those of a chart
\* with one element absent
BaseProfiles ==
    {NoScores,
     [e \in Oheng |-> 20 * Tenths],
     [e \in Oheng |-> CASE e = "wood"  -> 413
                        [] e = "fire"  -> 238
                        [] e = "earth" -> 222
                        [] e = "metal" -> 127
                        [] e = "water" -> 0]}

InitToday ==
    /\ \E tp \in TodayPillars :
         manses = [InitialManses(NumDays, {}) EXCEPT ![1].daySky = tp[1],
                                                     ![1].dayGround = tp[2]]
    /\ manses0 = manses
    /\ absent_pairs = {}
    /\ tie_up \in BOOLEAN
    /\ \/ users = [u \in Uids |-> NoUser]
       \/ \E st \in BaseProfiles, g \in Genders :
            users = [u \in Uids |->
                        [exists |-> TRUE, nickname |-> "nick1", gender |-> g,
                         birth_date |-> 1, birth_time |-> NONE, birth_calendar |-> SOLAR,
                         oheng |-> st,
                         day_sky |-> IF st = NoScores THEN "none" ELSE "gap"]]
    /\ call = [fn |-> "none"]
    /\ ret = NoRet
    /\ NoService

\* GET of today's analysis; the scores before the re-normalisation are kept
\* beside the answer
TodayCall ==
    \E uid \in Uids, today \in TodayDates, closing \in CLOSING_MESSAGES :
        LET r == get_today_saju_analysis(uid, users, manses, today, closing)
        IN  /\ call' = [fn |-> "get_today_saju_analysis", uid |-> uid, today |-> today]
            /\ ret' = [done |-> TRUE, err |-> r.err, result |-> r.result,
                       raw |-> IF r.err = "OK"
                               THEN calculate_today_saju_iljin(users[uid], manses, today).raw
                               ELSE NoScores]
            /\ users' = r.users
            /\ UNCHANGED <<manses, manses0, absent_pairs, tie_up, service_vars>>

NextToday == TodayCall

SpecToday == InitToday /\ [][NextToday]_vars

(***************************************************************************)
(* The profile cache: get_my_info (users.py 127-156), patch_my_info        *)
(* (users.py 197-257) and UserCacheService (user_cache_service.py 16-116). *)
(* The Users table and the Redis entry are shared by every worker that     *)
(* serves requests, and no handler holds a lock: a request is a sequence   *)
(* of accesses to Redis and to the database, and between two accesses of   *)
(* one request any access of another request may take place.               *)
(***************************************************************************)
NoProfile == [cached |-> FALSE]

\* birth_time.strftime("%H:%M") and map(int, s.split(":")) / dt_time(h, m)
format_time(t) == <<t \div 60, ":", t % 60>>

parse_time(s) == s[1] * 60 + s[3]

\* date.isoformat() and date.fromisoformat()
isoformat(d) == <<"iso", d>>

fromisoformat(s) == s[2]

\* UserInfoResponse.model_validate(user).model_dump(): the fields of
\* schemas.py 62-74 that the model carries
model_dump(user) ==
    [nickname |-> user.nickname, gender |-> user.gender,
     birth_date |-> user.birth_date, birth_time |-> user.birth_time,
     birth_calendar |-> user.birth_calendar, oheng |-> user.oheng]

\* set_user_profile, dict branch (lines 77-106): the entry written, or
\* NoProfile when float(None) raises and nothing is written
set_user_profile(user_dict) ==
    IF \E k \in Oheng : user_dict.oheng[k] = NONE THEN NoProfile
    ELSE [cached |-> TRUE,
          nickname |-> user_dict.nickname, gender |-> user_dict.gender,
          birth_date |-> IF user_dict.birth_date # NONE
                         THEN isoformat(user_dict.birth_date) ELSE <<>>,
          birth_time |-> IF user_dict.birth_time # NONE
                         THEN format_time(user_dict.birth_time) ELSE <<>>,
          birth_calendar |-> user_dict.birth_calendar, oheng |-> user_dict.oheng]

\* get_user_profile (lines 25-47) on an entry that is there
get_user_profile(entry) ==
    [nickname |-> entry.nickname, gender |-> entry.gender,
     birth_date |-> IF entry.birth_date # <<>>
                    THEN fromisoformat(entry.birth_date) ELSE NONE,
     birth_time |-> IF entry.birth_time # <<>>
                    THEN parse_time(entry.birth_time) ELSE NONE,
     birth_calendar |-> entry.birth_calendar, oheng |-> entry.oheng]

\* a request that has ended, with the error raised (or OK)
finished(req, e) == [req EXCEPT !.pc = "done", !.err = e]

\* get_my_info, line 139: the read of the cache entry
GetCacheRead(i) ==
    /\ i \in DOMAIN requests
    /\ requests[i].fn = "get_my_info" /\ requests[i].pc = "cache_get"
    /\ LET req == requests[i]
       IN  requests' = [requests EXCEPT ![i] =
               IF cache[req.uid].cached
               THEN [finished(req, "OK") EXCEPT
                        !.user_dict = get_user_profile(cache[req.uid])]
               ELSE [req EXCEPT !.pc = "db_read"]]
    /\ UNCHANGED <<manses, manses0, users, absent_pairs, tie_up, call, ret,
                   cache, friendships, last_friendship_id>>

\* lines 144-150: the query of the user row after a miss
GetDbRead(i) ==
    /\ i \in DOMAIN requests
    /\ requests[i].fn = "get_my_info" /\ requests[i].pc = "db_read"
    /\ LET req == requests[i]
       IN  requests' = [requests EXCEPT ![i] =
               IF ~users[req.uid].exists THEN finished(req, "UNAUTHORIZED")
               ELSE [req EXCEPT !.pc = "cache_set",
                                !.user_dict = model_dump(users[req.uid])]]
    /\ UNCHANGED <<manses, manses0, users, absent_pairs, tie_up, call, ret,
                   cache, friendships, last_friendship_id>>

\* line 151: the write of the entry (setex); a failed write leaves the entry
GetCacheSet(i) ==
    /\ i \in DOMAIN requests
    /\ requests[i].fn = "get_my_info" /\ requests[i].pc = "cache_set"
    /\ cache' = IF set_user_profile(requests[i].user_dict).cached
                THEN [cache EXCEPT ![requests[i].uid] =
                          set_user_profile(requests[i].user_dict)]
                ELSE cache
    /\ requests' = [requests EXCEPT ![i] = finished(@, "OK")]
    /\ UNCHANGED <<manses, manses0, users, absent_pairs, tie_up, call, ret,
                   friendships, last_friendship_id>>

\* patch_my_info, lines 204-245: the query of the user row and the
\* assignments to the session's object
PatchQuery(i) ==
    /\ i \in DOMAIN requests
    /\ requests[i].fn = "patch_my_info" /\ requests[i].pc = "query"
    /\ LET req == requests[i]
           p == patched_user(users[req.uid], req.data)
       IN  requests' = [requests EXCEPT ![i] =
               IF ~users[req.uid].exists THEN finished(req, "UNAUTHORIZED")
               ELSE IF req.data.birth_date = INVALID \/ new_time(req.data) = INVALID
               THEN finished(req, "BAD_REQUEST")
               ELSE [req EXCEPT !.pc = "commit",
                                !.read = users[req.uid],
                                !.user = p.user,
                                !.is_saju_data_changed = p.is_saju_data_changed]]
    /\ UNCHANGED <<manses, manses0, users, absent_pairs, tie_up, call, ret,
                   cache, friendships, last_friendship_id>>

\* the row after a commit of the session's object: the columns the session
\* changed are written, the others stay as stored
flushed(stored, read, user) ==
    [f \in DOMAIN stored |-> IF user[f] # read[f] THEN user[f] ELSE stored[f]]

\* lines 248-253: the calculation when the saju data changed, the commit and
\* the refresh
PatchCommit(i) ==
    /\ i \in DOMAIN requests
    /\ requests[i].fn = "patch_my_info" /\ requests[i].pc = "commit"
    /\ LET req == requests[i]
           r == calculate_saju_and_save(req.user, manses)
       IN  IF ~req.is_saju_data_changed
           THEN /\ users' = [users EXCEPT ![req.uid] = flushed(@, req.read, req.user)]
                /\ manses' = manses
                /\ requests' = [requests EXCEPT ![i].pc = "invalidate"]
           ELSE IF r.err = "OK"
           THEN /\ users' = [users EXCEPT ![req.uid] = flushed(@, req.read, r.user)]
                /\ manses' = r.manses
                /\ requests' = [requests EXCEPT ![i].pc = "invalidate"]
           ELSE /\ requests' = [requests EXCEPT ![i] = finished(@, r.err)]
                /\ UNCHANGED <<users, manses>>
    /\ UNCHANGED <<manses0, absent_pairs, tie_up, call, ret,
                   cache, friendships, last_friendship_id>>

\* line 254: invalidate_user_profile (delete of the entry)
PatchInvalidate(i) ==
    /\ i \in DOMAIN requests
    /\ requests[i].fn = "patch_my_info" /\ requests[i].pc = "invalidate"
    /\ cache' = [cache EXCEPT ![requests[i].uid] = NoProfile]
    /\ requests' = [requests EXCEPT ![i] = finished(@, "OK")]
    /\ UNCHANGED <<manses, manses0, users, absent_pairs, tie_up, call, ret,
                   friendships, last_friendship_id>>

\* the entry's time to live (user_ttl, line 14) runs out
CacheExpire ==
    /\ \E uid \in Uids :
         /\ cache[uid].cached
         /\ cache' = [cache EXCEPT ![uid] = NoProfile]
    /\ UNCHANGED <<manses, manses0, users, absent_pairs, tie_up, call, ret,
                   requests, friendships, last_friendship_id>>

(***************************************************************************)
(* SpecCache: up to NumCacheRequests requests of one stored user, GET or   *)
(* PATCH /users/me, arriving at any time and interleaved access by access. *)
(***************************************************************************)
CacheNicknames == {"nick1", "nick2"}

\* the PATCH bodies: a new nickname, or a gender (which runs the calculation)
CacheUpdateData ==
    {[nickname |-> n, gender |-> "none", birth_date |-> NONE,
      birth_calendar |-> <<>>, time_unknown |-> "none", birth_hm |-> NONE] :
        n \in CacheNicknames}
    \cup
    {[nickname |-> "none", gender |-> g, birth_date |-> NONE,
      birth_calendar |-> <<>>, time_unknown |-> "none", birth_hm |-> NONE] :
        g \in Genders}

\* the row of a user who signed up with solar date 1 and no birth time
CacheUser(db) ==
    calculate_saju_and_save(
        new_user([nickname |-> "nick1", gender |-> "F", birth_date |-> 1,
                  birth_time |-> NONE, birth_calendar |-> SOLAR]), db).user

InitCache ==
    /\ manses = InitialManses(NumDays, {})
    /\ manses0 = manses
    /\ users = [u \in Uids |-> CacheUser(manses)]
    /\ absent_pairs = {}
    /\ tie_up \in BOOLEAN
    /\ call = NoCall
    /\ ret = NoRet
    /\ cache \in {[u \in Uids |-> NoProfile],
                  [u \in Uids |-> set_user_profile(model_dump(users[u]))]}
    /\ requests = <<>>
    /\ friendships = {}
    /\ last_friendship_id = 0

\* a GET /users/me arrives
GetArrives ==
    /\ Len(requests) < NumCacheRequests
    /\ \E uid \in Uids :
         requests' = Append(requests,
             [fn |-> "get_my_info", uid |-> uid, pc |-> "cache_get", err |-> "OK",
              user_dict |-> <<>>])
    /\ UNCHANGED <<manses, manses0, users, absent_pairs, tie_up, call, ret,
                   cache, friendships, last_friendship_id>>

\* a PATCH /users/me arrives
PatchArrives ==
    /\ Len(requests) < NumCacheRequests
    /\ \E uid \in Uids, data \in CacheUpdateData :
         requests' = Append(requests,
             [fn |-> "patch_my_info", uid |-> uid, pc |-> "query", err |-> "OK",
              data |-> data, read |-> NoUser, user |-> NoUser,
              is_saju_data_changed |-> FALSE])
    /\ UNCHANGED <<manses, manses0, users, absent_pairs, tie_up, call, ret,
                   cache, friendships, last_friendship_id>>

NextCache ==
    \/ GetArrives
    \/ PatchArrives
    \/ \E i \in 1..NumCacheRequests : GetCacheRead(i)
    \/ \E i \in 1..NumCacheRequests : GetDbRead(i)
    \/ \E i \in 1..NumCacheRequests : GetCacheSet(i)
    \/ \E i \in 1..NumCacheRequests : PatchQuery(i)
    \/ \E i \in 1..NumCacheRequests : PatchCommit(i)
    \/ \E i \in 1..NumCacheRequests : PatchInvalidate(i)
    \/ CacheExpire

SpecCache == InitCache /\ [][NextCache]_vars

(***************************************************************************)
(* The friendships API (api/friends.py).  The three handlers are plain     *)
(* def functions, which the framework runs on the threads of a pool: each  *)
(* thread takes a request, runs the handler's queries and checks, and then *)
(* its write and commit, and the threads interleave between the two.       *)
(* friendships is the Friendships table, requests[t] the request thread t  *)
(* is in, call and ret the step taken last and its answer.                 *)
(***************************************************************************)
\* the Users rows the friendships refer to: firebase_uid |-> id
FriendUserIds == [u1 |-> 1, u2 |-> 2]

\* the uids requests come with; "u0" has no Users row
FriendUids == {"u0", "u1", "u2"}

FriendActions == {"accept", "reject"}

\* a thread of the pool that is in no request
Idle == [fn |-> "none", pc |-> "idle"]

\* no Friendships row (the None of .first())
NoFriendship == [id |-> NONE]

\* get_user_id_by_uid (lines 26-29)
get_user_id_by_uid(uid) ==
    IF uid \in DOMAIN FriendUserIds THEN FriendUserIds[uid] ELSE NONE

\* class Friendships: a row with status 'pending' by default
Friendships(id, requester_id, receiver_id) ==
    [id |-> id, requester_id |-> requester_id, receiver_id |-> receiver_id,
     status |-> "pending"]

\* the filter of lines 102-118 and 211-216: the rows between a and b, in
\* either direction
rows_between(rows, a, b) ==
    {f \in rows : \/ f.requester_id = a /\ f.receiver_id = b
                  \/ f.requester_id = b /\ f.receiver_id = a}

\* UniqueConstraint('requester_id', 'receiver_id'): whether a row of the
\* table already has this requester and this receiver
uq_friendship_pair(rows, requester_id, receiver_id) ==
    \E f \in rows : f.requester_id = requester_id /\ f.receiver_id = receiver_id

\* what the session does when the row it deletes is no longer in the table:
\* the flush goes on, or it raises
VanishedDeleteOutcomes == {"OK", "INTERNAL_SERVER_ERROR"}

\* the answer of a handler that ended at a check
refused(fn, user_id, target, e) ==
    /\ call' = [fn |-> fn, step |-> "check", user_id |-> user_id,
                target |-> target]
    /\ ret' = [done |-> TRUE, err |-> e]
    /\ UNCHANGED <<requests, friendships, last_friendship_id>>

\* a handler that passed its checks and is before its write
proceeds(t, fn, user_id, target, req) ==
    /\ call' = [fn |-> fn, step |-> "check", user_id |-> user_id,
                target |-> target]
    /\ ret' = [done |-> FALSE, err |-> "OK"]
    /\ requests' = [requests EXCEPT ![t] = req]
    /\ UNCHANGED <<friendships, last_friendship_id>>

\* the answer of a handler after its write, which frees thread t
answered(t, e) ==
    /\ call' = [fn |-> requests[t].fn, step |-> "write",
                user_id |-> requests[t].user_id, target |-> requests[t].target]
    /\ ret' = [done |-> TRUE, err |-> e]
    /\ requests' = [requests EXCEPT ![t] = Idle]

\* create_friend_request, lines 196-232: the queries and the checks
CreateCheck(t, uid, receiver_uid) ==
    /\ requests[t] = Idle
    /\ last_friendship_id
         + Cardinality({s \in DOMAIN requests :
                           requests[s].fn = "create_friend_request"})
         < MaxFriendshipId
    /\ LET user_id == get_user_id_by_uid(uid)
           receiver_id == get_user_id_by_uid(receiver_uid)
           fn == "create_friend_request"
       IN  IF user_id = NONE THEN refused(fn, user_id, receiver_id, "UNAUTHORIZED")
           ELSE IF receiver_id = NONE
           THEN refused(fn, user_id, receiver_id, "NOT_FOUND")
           ELSE IF user_id = receiver_id
           THEN refused(fn, user_id, receiver_id, "BAD_REQUEST")
           ELSE IF rows_between(friendships, user_id, receiver_id) = {}
           THEN proceeds(t, fn, user_id, receiver_id,
                    [fn |-> fn, pc |-> "write", user_id |-> user_id,
                     target |-> receiver_id, row |-> NoFriendship])
           ELSE \E existing_request \in
                      rows_between(friendships, user_id, receiver_id) :
                  IF existing_request.status \in {"pending", "accepted"}
                  THEN refused(fn, user_id, receiver_id, "CONFLICT")
                  ELSE proceeds(t, fn, user_id, receiver_id,
                           [fn |-> fn, pc |-> "write", user_id |-> user_id,
                            target |-> receiver_id, row |-> existing_request])
    /\ UNCHANGED <<manses, manses0, users, absent_pairs, tie_up, cache>>

\* create_friend_request, lines 234-266: the delete of the rejected row, the
\* insert of the new row and the commit
CreateWrite(t) ==
    /\ requests[t].fn = "create_friend_request" /\ requests[t].pc = "write"
    /\ LET req == requests[t]
           stored == {f \in friendships : f.id = req.row.id}
           kept == friendships \ stored
       IN  \E outcome \in VanishedDeleteOutcomes :
             IF req.row # NoFriendship /\ stored = {} /\ outcome # "OK"
             THEN /\ answered(t, outcome)
                  /\ UNCHANGED <<friendships, last_friendship_id>>
             ELSE IF uq_friendship_pair(kept, req.user_id, req.target)
             THEN /\ answered(t, "INTERNAL_SERVER_ERROR")
                  /\ UNCHANGED <<friendships, last_friendship_id>>
             ELSE /\ answered(t, "OK")
                  /\ last_friendship_id' = last_friendship_id + 1
                  /\ friendships' = kept \cup
                        {Friendships(last_friendship_id + 1, req.user_id,
                                     req.target)}
    /\ UNCHANGED <<manses, manses0, users, absent_pairs, tie_up, cache>>

\* handle_friend_request, lines 279-314: the queries and the checks
HandleCheck(t, uid, friendship_id, action) ==
    /\ requests[t] = Idle
    /\ LET user_id == get_user_id_by_uid(uid)
           found == {f \in friendships : f.id = friendship_id}
           fn == "handle_friend_request"
       IN  IF user_id = NONE THEN refused(fn, user_id, friendship_id, "UNAUTHORIZED")
           ELSE IF found = {}
           THEN refused(fn, user_id, friendship_id, "NOT_FOUND")
           ELSE \E friendship \in found :
                  IF friendship.receiver_id # user_id
                  THEN refused(fn, user_id, friendship_id, "FORBIDDEN")
                  ELSE IF friendship.status # "pending"
                  THEN refused(fn, user_id, friendship_id, "CONFLICT")
                  ELSE proceeds(t, fn, user_id, friendship_id,
                           [fn |-> fn, pc |-> "write", user_id |-> user_id,
                            target |-> friendship_id, row |-> friendship,
                            action |-> action])
    /\ UNCHANGED <<manses, manses0, users, absent_pairs, tie_up, cache>>

\* handle_friend_request, lines 318-353: the new status and the commit, an
\* UPDATE of the row with the id that was read
HandleWrite(t) ==
    /\ requests[t].fn = "handle_friend_request" /\ requests[t].pc = "write"
    /\ LET req == requests[t]
           stored == {f \in friendships : f.id = req.row.id}
           status == IF req.action = "accept" THEN "accepted" ELSE "rejected"
       IN  IF stored = {}
           THEN /\ answered(t, "INTERNAL_SERVER_ERROR")
                /\ UNCHANGED friendships
           ELSE /\ answered(t, "OK")
                /\ friendships' = (friendships \ stored) \cup
                      {[f EXCEPT !.status = status] : f \in stored}
    /\ UNCHANGED <<manses, manses0, users, absent_pairs, tie_up, cache,
                   last_friendship_id>>

\* delete_friend, lines 91-124: the queries and the checks
DeleteCheck(t, uid, friend_uid) ==
    /\ requests[t] = Idle
    /\ LET user_id == get_user_id_by_uid(uid)
           friend_id == get_user_id_by_uid(friend_uid)
           found == {f \in rows_between(friendships, user_id, friend_id) :
                        f.status = "accepted"}
           fn == "delete_friend"
       IN  IF user_id = NONE THEN refused(fn, user_id, friend_id, "UNAUTHORIZED")
           ELSE IF user_id = friend_id
           THEN refused(fn, user_id, friend_id, "BAD_REQUEST")
           ELSE IF found = {}
           THEN refused(fn, user_id, friend_id, "NOT_FOUND")
           ELSE \E friendship \in found :
                  proceeds(t, fn, user_id, friend_id,
                      [fn |-> fn, pc |-> "write", user_id |-> user_id,
                       target |-> friend_id, row |-> friendship])
    /\ UNCHANGED <<manses, manses0, users, absent_pairs, tie_up, cache>>

\* delete_friend, lines 126-137: the delete of the row that was read and the
\* commit
DeleteWrite(t) ==
    /\ requests[t].fn = "delete_friend" /\ requests[t].pc = "write"
    /\ LET req == requests[t]
           stored == {f \in friendships : f.id = req.row.id}
       IN  \E outcome \in VanishedDeleteOutcomes :
             /\ answered(t, IF stored = {} THEN outcome ELSE "OK")
             /\ friendships' = friendships \ stored
    /\ UNCHANGED <<manses, manses0, users, absent_pairs, tie_up, cache,
                   last_friendship_id>>

(***************************************************************************)
(* SpecFriends: two users with a Users row and a caller without one, the   *)
(* table empty at the start, NumFriendThreads pool threads serving any     *)
(* requests to the three handlers until MaxFriendshipId rows were created. *)
(***************************************************************************)
InitFriends ==
    /\ manses = InitialManses(NumDays, {})
    /\ manses0 = manses
    /\ users = [u \in Uids |-> CacheUser(manses)]
    /\ absent_pairs = {}
    /\ tie_up = FALSE
    /\ call = NoCall
    /\ ret = NoRet
    /\ cache = <<>>
    /\ requests = [t \in 1..NumFriendThreads |-> Idle]
    /\ friendships = {}
    /\ last_friendship_id = 0

NextFriends ==
    \/ \E t \in 1..NumFriendThreads, uid \in FriendUids, receiver_uid \in FriendUids :
         CreateCheck(t, uid, receiver_uid)
    \/ \E t \in 1..NumFriendThreads : CreateWrite(t)
    \/ \E t \in 1..NumFriendThreads, uid \in FriendUids,
          friendship_id \in 1..MaxFriendshipId, action \in FriendActions :
         HandleCheck(t, uid, friendship_id, action)
    \/ \E t \in 1..NumFriendThreads : HandleWrite(t)
    \/ \E t \in 1..NumFriendThreads, uid \in FriendUids, friend_uid \in FriendUids :
         DeleteCheck(t, uid, friend_uid)
    \/ \E t \in 1..NumFriendThreads : DeleteWrite(t)

SpecFriends == InitFriends /\ [][NextFriends]_vars


(***************************************************************************)
(* Properties.                                                             *)
(***************************************************************************)
YearMonthDay == {"yearSky", "yearGround", "monthSky", "monthGround", "daySky", "dayGround"}

YearMonth == {"yearSky", "yearGround", "monthSky", "monthGround"}

RecognizedCalendars == {SOLAR, LUNAR, LUNAR_LEAP}

\* the rows of table db that belong to `date` under a recognized calendar tag
RowsFor(db, date, cal) ==
    {i \in DOMAIN db :
        \/ cal = SOLAR /\ db[i].solarDate = date
        \/ cal = LUNAR /\ db[i].lunarDate = date /\ db[i].leapMonth = 0
        \/ cal = LUNAR_LEAP /\ db[i].lunarDate = date /\ db[i].leapMonth = 1}

\* the date the midnight rule prescribes for birth date d and time t
LookupDate(d, t) == IF t # NONE /\ t >= 23 * 60 + 30 THEN d + 1 ELSE d

\* C1: after any sequence of registrations and profile updates, every stored
\* calendar record still has the year, month and day stem/branch values it
\* had initially.
C1_CalendarDataUnchanged ==
    \A d \in DOMAIN manses : \A f \in YearMonthDay : manses[d][f] = manses0[d][f]

\* C2: when the found record carries a season-start instant, the birth time
\* is known and the original birth date+time is strictly before that instant,
\* the returned year and month stem/branch are those of the record with the
\* largest solar date strictly less than the found record's; when there is no
\* earlier record, or the birth is at or after the instant, or the time is
\* unknown, they are the found record's own.
C2_SolarTermCorrection ==
    (ret.done /\ ret.err = "OK") =>
        LET found == manses[CHOOSE i \in DOMAIN manses :
                              manses[i].solarDate = ret.record.solarDate]
            isBefore == /\ found.seasonStartTime # NONE
                        /\ call.birth_time # NONE
                        /\ call.birth_date * MinutesPerDay + call.birth_time
                             < found.seasonStartTime
            earlier == {i \in DOMAIN manses : manses[i].solarDate < found.solarDate}
        IN  IF isBefore /\ earlier # {}
            THEN \E i \in earlier :
                    /\ \A j \in earlier : manses[j].solarDate <= manses[i].solarDate
                    /\ \A f \in YearMonth : ret.record[f] = manses[i][f]
            ELSE \A f \in YearMonth : ret.record[f] = found[f]

\* C2 witness: a birth before the season start of a record with two earlier
\* records, whose month pillar was replaced.
C2_Witness ==
    /\ ret.done /\ ret.err = "OK"
    /\ ret.record.seasonStartTime # NONE
    /\ call.birth_time # NONE
    /\ call.birth_date * MinutesPerDay + call.birth_time < ret.record.seasonStartTime
    /\ Cardinality({i \in DOMAIN manses : manses[i].solarDate < ret.record.solarDate}) >= 2
    /\ ret.record.monthSky # manses[ret.id].monthSky

\* C3: a known birth time t >= 23:30 on date D is resolved against the record
\* for D+1; a known birth time t < 23:30 and an unknown birth time against the
\* record for D (the record returned is the one for that date, and the lookup
\* fails exactly when the table has none for it).
C3_MidnightDayShift ==
    (ret.done /\ call.birth_calendar \in RecognizedCalendars) =>
        LET rows == RowsFor(manses, LookupDate(call.birth_date, call.birth_time),
                            call.birth_calendar)
        IN  IF rows = {} THEN ret.err = "NOT_FOUND"
            ELSE /\ ret.err = "OK"
                 /\ \E i \in rows : ret.record.solarDate = manses[i].solarDate

\* C3 witness: a solar birth at exactly 23:30 on day D resolved to day D+1.
C3_Witness ==
    /\ ret.done /\ ret.err = "OK"
    /\ call.birth_calendar = SOLAR
    /\ call.birth_time = 23 * 60 + 30
    /\ ret.record.solarDate = call.birth_date + 1

\* C4: every calendar tag outside {solar, lunar, lunar_leap} makes the
\* resolver fail with BadRequestException; no such tag is resolved to a record.
C4_UnrecognizedTagRejected ==
    (ret.done /\ call.birth_calendar \notin RecognizedCalendars) =>
        ret.err = "BAD_REQUEST"

\* C5: when no calendar record matches the lookup date and calendar system,
\* calculate_saju_and_save fails with NotFoundException and the user's five
\* stored percentages and stored day stem are what they were before the call.
C5_NotFoundAborts ==
    [][(~ret.done /\ ret'.done) =>
        LET u == users[call.uid]
        IN  (/\ u.birth_date # NONE
             /\ u.birth_calendar \in RecognizedCalendars
             /\ RowsFor(manses, LookupDate(u.birth_date, u.birth_time),
                        u.birth_calendar) = {})
            => /\ ret'.err = "NOT_FOUND"
               /\ users'[call.uid].oheng = u.oheng
               /\ users'[call.uid].day_sky = u.day_sky
               /\ manses' = manses]_vars

\* C5 witness: the call failed with NOT_FOUND on a row that held earlier
\* percentages, which are still there.
C5_Witness ==
    /\ ret.done /\ ret.err = "NOT_FOUND"
    /\ \E u \in Uids : users[u].oheng = EarlierScores /\ users[u].day_sky = "gap"

\* C6: for every pillar set with the day stem present (so at least one
\* character contributes mass), calculate_oheng_score returns five
\* non-negative values whose sum is within 0.5 of 100.
C6_SumsToHundred ==
    (ret.done /\ call.saju_pillars.day_sky # "none") =>
        /\ ret.err = "OK"
        /\ SumScores(ret.raw) > 0
        /\ \A e \in Oheng : ret.scores[e] >= 0
        /\ SumScores(ret.scores) >= 1000 - 5
        /\ SumScores(ret.scores) <= 1000 + 5

\* C6 witness: a three-pillar set whose rounded values do not add up to
\* exactly 100.0.
C6_Witness ==
    /\ ret.done /\ ret.err = "OK"
    /\ call.saju_pillars.time_sky = "none" /\ call.saju_pillars.time_ground = "none"
    /\ SumScores(ret.scores) # 1000

\* the score units of n half points
HalfPoints(n) == (n * Unit) \div 2

\* C7: before normalisation each present stem adds exactly 7.5 points to
\* exactly one element, each present non-month branch distributes exactly 17.5
\* points and the month branch exactly 38.5 points over its sub-components in
\* proportion to their rates; absent pillars add nothing and their share is not
\* redistributed (three pillars accumulate 96 points, four pillars 121).
C7_WeightModel ==
    (ret.done /\ ret.err = "OK") =>
        LET p == call.saju_pillars
            stems(e) == {f \in SkyFields : p[f] # "none" /\ StemElement[p[f]] = e}
            weight(f) == IF f = "month_ground" THEN HalfPoints(77) ELSE HalfPoints(35)
            branches == {f \in GroundFields : p[f] # "none"}
            share(f, e) == (weight(f) * element_rate[p[f]][e]) \div total_rate[p[f]]
            sumShares(e) ==
                (IF "year_ground" \in branches THEN share("year_ground", e) ELSE 0)
                + (IF "month_ground" \in branches THEN share("month_ground", e) ELSE 0)
                + (IF "day_ground" \in branches THEN share("day_ground", e) ELSE 0)
                + (IF "time_ground" \in branches THEN share("time_ground", e) ELSE 0)
        IN  /\ \A e \in Oheng :
                 ret.raw[e] = Cardinality(stems(e)) * HalfPoints(15) + sumShares(e)
            /\ SumScores(ret.raw) =
                 Cardinality({f \in SkyFields : p[f] # "none"}) * HalfPoints(15)
                 + Cardinality(branches \ {"month_ground"}) * HalfPoints(35)
                 + (IF "month_ground" \in branches THEN HalfPoints(77) ELSE 0)
            /\ (\A f \in PillarFields :
                    (p[f] = "none") <=> (f \in {"time_sky", "time_ground"}))
                 => SumScores(ret.raw) = 96 * Unit
            /\ (\A f \in PillarFields : p[f] # "none")
                 => SumScores(ret.raw) = 121 * Unit

\* C7 witness: a three-pillar chart (hour stem and branch absent, the other six
\* present) that accumulated 96 points.
C7_Witness ==
    /\ ret.done /\ ret.err = "OK"
    /\ \A f \in PillarFields :
         (call.saju_pillars[f] = "none") <=> (f \in {"time_sky", "time_ground"})
    /\ SumScores(ret.raw) = 96 * Unit

\* C8: calculate_oheng_score fails with InternalServerErrorException whenever
\* the day stem is absent, whatever the other seven slots hold, and returns no
\* profile.
C8_DayStemRequired ==
    (ret.done /\ call.saju_pillars.day_sky = "none") =>
        ret.err = "INTERNAL_SERVER_ERROR" /\ ret.scores = NoScores

\* C8 witness: the day stem is absent, the other seven slots are present, and
\* the call failed.
C8_Witness ==
    /\ ret.done /\ ret.err = "INTERNAL_SERVER_ERROR"
    /\ \A f \in PillarFields : (call.saju_pillars[f] = "none") <=> (f = "day_sky")

\* the slot of a known time t: 23:30-01:29 is slot 0, then two hours each
SlotOf(t) ==
    IF t >= 23 * 60 + 30 \/ t <= 60 + 29 THEN 0 ELSE ((t - (60 + 30)) \div 120) + 1

\* the day stem of the record a stored user's birth data resolve to
ResolvedDayStems(u) ==
    {manses[i].daySky :
        i \in RowsFor(manses, LookupDate(u.birth_date, u.birth_time), u.birth_calendar)}

\* C9: when the birth time is unknown, or the (day stem, slot) pair is missing
\* from the composition table, get_time_pillar returns the unknown sentinel
\* without raising and calculate_saju_and_save still completes as a
\* three-pillar computation in which the hour stem and branch add no mass.
C9_HourPillarSoftFailure ==
    ret.done =>
        \A uid \in Uids :
            LET u == users[uid]
            IN  (/\ u.birth_date # NONE
                 /\ u.birth_calendar \in RecognizedCalendars
                 /\ ResolvedDayStems(u) # {}
                 /\ \/ u.birth_time = NONE
                    \/ \E ds \in ResolvedDayStems(u) :
                          <<ds, SlotOf(u.birth_time)>> \in absent_pairs)
                => /\ ret.err = "OK"
                   /\ ret.time_pillar = UnknownPillar
                   /\ ret.saju_pillars.time_sky = "none"
                   /\ ret.saju_pillars.time_ground = "none"
                   /\ \A f \in PillarFields \ {"time_sky", "time_ground"} :
                         ret.saju_pillars[f] # "none"
                   /\ SumScores(ret.raw) = 96 * Unit
                   /\ u.oheng = ret.scores

\* C9 witness: the birth time is known, the composition table lacks the pair,
\* and the calculation completed.
C9_Witness ==
    /\ ret.done /\ ret.err = "OK"
    /\ \E uid \in Uids :
         /\ users[uid].birth_time # NONE
         /\ <<ret.saju_pillars.day_sky, SlotOf(users[uid].birth_time)>> \in absent_pairs
         /\ users[uid].oheng = ret.scores
    /\ ret.time_pillar = UnknownPillar

\* C10: every time t with t >= 23:30 or t <= 01:29 (23:30 and 01:29 included)
\* maps to the wrap-around slot, 01:30 maps to the next slot, and every
\* hour:minute time maps to exactly one of the twelve slots.
C10_HourSlotBoundaries ==
    (ret.done /\ call.birth_time # NONE) =>
        LET t == call.birth_time
        IN  /\ (t >= 23 * 60 + 30 \/ t <= 60 + 29) => ret.time_index = 0
            /\ (t = 60 + 30) => ret.time_index = 1
            /\ ret.time_index \in SlotIndexes
            /\ Cardinality({i \in SlotIndexes : InSlot(i, t)}) = 1
            /\ time_ju_data2_has(absent_pairs, call.day_sky, ret.time_index)
                 => ret.time_pillar.time_ground = Branches12[ret.time_index + 1]

\* C10 witness: 01:29 mapped to the wrap-around slot and its branch.
C10_Witness ==
    /\ ret.done
    /\ call.birth_time = 60 + 29
    /\ ret.time_index = 0
    /\ ret.time_pillar.time_ground = "ja"

\* C11: every profile is classified deficient when some value is below 5.0
\* (whatever its spread), balanced when no value is below 5.0 and no two
\* values differ by more than 10.0, and skewed otherwise; [3,24,24,24,25] is
\* deficient, [18,19,20,21,22] balanced and [5,5,5,5,80] skewed.
C11_ClassificationThresholds ==
    ret.done =>
        LET p == call.oheng_scores
            below == \E e \in Oheng : p[e] < 5 * PerPercent
            close == \A a, b \in Oheng : p[a] - p[b] <= 10 * PerPercent
            type == ret.analysis.oheng_type
        IN  /\ below => type = "deficient"
            /\ (~below /\ close) => type = "balanced"
            /\ (~below /\ ~close) => type = "skewed"
            /\ p = profile(3, 24, 24, 24, 25) => type = "deficient"
            /\ p = profile(18, 19, 20, 21, 22) => type = "balanced"
            /\ p = profile(5, 5, 5, 5, 80) => type = "skewed"

\* C11 witness: a profile whose minimum is below 5.0 and whose spread is
\* within 10.0 was classified deficient.
C11_Witness ==
    /\ ret.done
    /\ min_val(call.oheng_scores) = (19 * PerPercent) \div 4
    /\ max_val(call.oheng_scores) = 5 * PerPercent
    /\ ret.analysis.oheng_type = "deficient"

\* C12 (as the specification states it): the profile whose five values are
\* all 0 is classified balanced.  The code classifies it deficient.
C12_AllZeroBalanced ==
    (ret.done /\ \A e \in Oheng : call.oheng_scores[e] = 0)
        => ret.analysis.oheng_type = "balanced"

\* C13: for every profile the classification followed by the message
\* generation completes without an error, the category is one of the three,
\* and the weakest and strongest lists are not empty.
C13_ClassifierNeverFails ==
    ret.done =>
        /\ ret.err = "OK"
        /\ ret.analysis.oheng_type \in {"deficient", "balanced", "skewed"}
        /\ ret.analysis.primary_supplement_oheng # <<>>
        /\ ret.analysis.secondary_control_oheng # <<>>
        /\ ret.messages.headline # NoText
        /\ ret.messages.advice # NoText

\* C13 witness: the all-zero profile went through both functions; each list
\* holds the five elements.
C13_Witness ==
    /\ ret.done /\ ret.err = "OK"
    /\ \A e \in Oheng : call.oheng_scores[e] = 0
    /\ ret.analysis.primary_supplement_oheng = OHENG_KOREAN_KEYS
    /\ ret.analysis.secondary_control_oheng = OHENG_KOREAN_KEYS

\* lists of at most two elements
ShortLists == UNION {[1..n -> Oheng] : n \in 0..2}

\* C14: the suppression table has an entry for each of the five elements,
\* maps no element to itself and is one-to-one and onto (wood->metal,
\* fire->water, earth->wood, metal->fire, water->earth); the suppressor list
\* returned for a list of strong elements has the same length and its i-th
\* entry is the table's suppressor of the i-th strong element.
C14_SuppressionTable ==
    /\ DOMAIN COUNTER_OHENG_MAP = Oheng
    /\ \A e \in Oheng : COUNTER_OHENG_MAP[e] \in Oheng \ {e}
    /\ \A a, b \in Oheng : COUNTER_OHENG_MAP[a] = COUNTER_OHENG_MAP[b] => a = b
    /\ {COUNTER_OHENG_MAP[e] : e \in Oheng} = Oheng
    /\ COUNTER_OHENG_MAP["wood"] = "metal" /\ COUNTER_OHENG_MAP["fire"] = "water"
    /\ COUNTER_OHENG_MAP["earth"] = "wood" /\ COUNTER_OHENG_MAP["metal"] = "fire"
    /\ COUNTER_OHENG_MAP["water"] = "earth"
    /\ \A s \in ShortLists :
         /\ Len(control_ohengs_of(s)) = Len(s)
         /\ \A i \in 1..Len(s) : control_ohengs_of(s)[i] = COUNTER_OHENG_MAP[s[i]]
    /\ ret.done =>
         LET strong == ret.analysis.secondary_control_oheng
             control == ret.messages.control_ohengs
         IN  /\ ret.messages.strong = strong
             /\ Len(control) = Len(strong)
             /\ \A i \in 1..Len(strong) : control[i] = COUNTER_OHENG_MAP[strong[i]]

\* C14 witness: two strongest elements, one of them the suppressor of the
\* other; both suppressors were returned in order.
C14_Witness ==
    /\ ret.done
    /\ ret.analysis.secondary_control_oheng = <<"wood", "metal">>
    /\ ret.messages.control_ohengs = <<"metal", "fire">>

C16_DailyAdjustment ==
    (ret.done /\ ret.err = "OK") =>
        LET base == users[call.uid].oheng
            today_manse == manses[call.today]
            stem == StemElement[today_manse.daySky]
            branch == get_five_circle_from_char(today_manse.dayGround)
            added(k) == (IF k = stem THEN 20 * Tenths ELSE 0)
                        + (IF k = branch THEN 20 * Tenths ELSE 0)
            total == SumScores(ret.raw)
            scores == ret.result.oheng_scores
        IN  /\ \A k \in Oheng : ret.raw[k] = base[k] + added(k)
            /\ stem = branch => ret.raw[stem] = base[stem] + 40 * Tenths
            /\ total = SumScores(base) + 40 * Tenths
            \* within half a hundredth of value / total * 100
            /\ \A k \in Oheng :
                 2 * abs(scores[k] * total - ret.raw[k] * 100 * PerPercent) <= total
            /\ (stem = "wood" /\ branch = "wood" /\ \A k \in Oheng : base[k] = 20 * Tenths)
                 => /\ ret.raw["wood"] = 60 * Tenths /\ total = 140 * Tenths
                    /\ abs(scores["wood"] - 4290) <= 5
                    /\ \A k \in Oheng \ {"wood"} : abs(scores[k] - 1430) <= 5

\* C16 witness: 20.0 each, today's stem and branch both wood; wood came out
\* as 42.86 and fire as 14.29.
C16_Witness ==
    /\ ret.done /\ ret.err = "OK"
    /\ \A k \in Oheng : users[call.uid].oheng[k] = 20 * Tenths
    /\ manses[call.today].daySky = "gap" /\ manses[call.today].dayGround = "in"
    /\ ret.raw["wood"] = 60 * Tenths
    /\ ret.result.oheng_scores["wood"] = 4286
    /\ ret.result.oheng_scores["fire"] = 1429

\* C17 (as the specification states it): today's five values are rounded to
\* one decimal place, as the scorer's are, so that they equal the base
\* percentages the scorer would give for the same scores.  The code rounds
\* them to two decimal places.
C17_SameRoundingRule ==
    (ret.done /\ ret.err = "OK") =>
        \A k \in Oheng :
            ret.result.oheng_scores[k] = Percentages(ret.raw)[k] * (PerPercent \div Tenths)

\* C18: a request for today's analysis leaves the stored percentages and day
\* stem of every user as they were, and two successive successful requests
\* of one user against the same date return the same scores.
C18_BaseProfileUntouched ==
    [][/\ \A u \in Uids : users'[u] = users[u]
       /\ (/\ ret.done /\ ret.err = "OK" /\ ret'.err = "OK"
           /\ call'.uid = call.uid /\ call'.today = call.today)
            => ret'.result.oheng_scores = ret.result.oheng_scores]_vars

\* C18 witness: a successful request for a user whose row still holds 20.0
\* for each element and the day stem.
C18_Witness ==
    /\ ret.done /\ ret.err = "OK"
    /\ ret.result.oheng_scores["wood"] = 4286
    /\ \A k \in Oheng : users[call.uid].oheng[k] = 20 * Tenths
    /\ users[call.uid].day_sky = "gap"

\* C19 (as the specification states it): on signup, guest signup and profile
\* update a bad-request or not-found error of the calculation is answered
\* with that same kind.  The two signup handlers answer it as an internal
\* server error.
C19_CoreErrorsKeepKind ==
    (ret.done /\ ret.core_err \in {"BAD_REQUEST", "NOT_FOUND"}) => ret.err = ret.core_err

C21_DayPillarKept ==
    (ret.done /\ ret.err = "OK") =>
        LET found == manses[ret.id]
        IN  /\ found.solarDate = ret.record.solarDate
            /\ ret.id \in manse_query(manses, LookupDate(call.birth_date, call.birth_time),
                                      call.birth_calendar)
            /\ ret.record.daySky = found.daySky
            /\ ret.record.dayGround = found.dayGround
            /\ call.birth_time # NONE =>
                 get_time_pillar(ret.record.daySky, call.birth_time)
                   = get_time_pillar(found.daySky, call.birth_time)

\* C21 witness: year and month were taken from the previous row, whose day
\* pillar differs, and the day pillar returned is the found row's.
C21_Witness ==
    /\ ret.done /\ ret.err = "OK"
    /\ ret.record.monthSky # manses[ret.id].monthSky
    /\ ret.record.monthSky = previous_record(manses, manses[ret.id]).monthSky
    /\ previous_record(manses, manses[ret.id]).daySky # manses[ret.id].daySky
    /\ ret.record.daySky = manses[ret.id].daySky
    /\ ret.record.dayGround = manses[ret.id].dayGround

\* C23: when the calendar table has no row for today's date, the request for
\* today's analysis of a user with stored percentages ends with the not-found
\* error of the daily adjustment, and returns no scores, no classification
\* and no advice.
C23_TodayNotFound ==
    (/\ ret.done
     /\ users[call.uid].exists
     /\ \E k \in Oheng : users[call.uid].oheng[k] # NONE
     /\ users[call.uid].day_sky # "none"
     /\ \A i \in DOMAIN manses : manses[i].solarDate # call.today)
        => /\ calculate_today_saju_iljin(users[call.uid], manses, call.today).err
                = "NOT_FOUND"
           /\ ret.err = "NOT_FOUND"
           /\ ret.result = NoAnalysis
           /\ ret.result.oheng_scores = NoScores
           /\ ret.result.oheng_type = "none"
           /\ ret.result.advice = NoText

\* C23 witness: a user with stored percentages asked for the day after the
\* table's last date and got the not-found error.
C23_Witness ==
    /\ ret.done /\ ret.err = "NOT_FOUND"
    /\ call.today = NumDays + 1
    /\ users[call.uid].exists
    /\ users[call.uid].oheng["wood"] = 20 * Tenths
    /\ ret.result = NoAnalysis

\* C24: the weakest list holds exactly the elements whose value is the
\* profile's minimum and the strongest list exactly those whose value is the
\* maximum, each once; neither list is empty, and the lists share an element
\* only when the five values are equal.
C24_TieHandling ==
    ret.done =>
        LET p == call.oheng_scores
            lacking == ret.analysis.primary_supplement_oheng
            strong == ret.analysis.secondary_control_oheng
            elems(l) == {l[i] : i \in 1..Len(l)}
        IN  /\ elems(lacking) = {e \in Oheng : \A x \in Oheng : p[e] <= p[x]}
            /\ elems(strong) = {e \in Oheng : \A x \in Oheng : p[e] >= p[x]}
            /\ Len(lacking) = Cardinality(elems(lacking))
            /\ Len(strong) = Cardinality(elems(strong))
            /\ lacking # <<>> /\ strong # <<>>
            /\ elems(lacking) \cap elems(strong) # {}
                 => \A a, b \in Oheng : p[a] = p[b]

\* C24 witness: two elements at the minimum and three at the maximum.
C24_Witness ==
    /\ ret.done
    /\ ret.analysis.primary_supplement_oheng = <<"fire", "water">>
    /\ ret.analysis.secondary_control_oheng = <<"wood", "earth", "metal">>
    /\ call.oheng_scores["fire"] = call.oheng_scores["water"]
    /\ call.oheng_scores["fire"] < call.oheng_scores["wood"]

\* C25: in the balanced category the headline names the first weakest or the
\* first strongest element, whichever lies further from 20 percent, and says
\* it is weak when it names the weakest one and strong when it names the
\* strongest one.
C25_BalancedHeadline ==
    (ret.done /\ ret.err = "OK" /\ ret.analysis.oheng_type = "balanced") =>
        LET p == call.oheng_scores
            weakest == ret.analysis.primary_supplement_oheng[1]
            strongest == ret.analysis.secondary_control_oheng[1]
            gap_weakest == abs(p[weakest] - 20 * PerPercent)
            gap_strongest == abs(p[strongest] - 20 * PerPercent)
            h == ret.messages.headline
            says_weak == h.target_name = weakest /\ h.state = "weakest"
            says_strong == h.target_name = strongest /\ h.state = "slightly strong"
        IN  /\ h.kind = "stable"
            /\ gap_weakest > gap_strongest => says_weak
            /\ gap_strongest > gap_weakest => says_strong
            /\ says_weak \/ says_strong

\* C25 witness: [19,19,19,19,24] is balanced, its strongest element lies
\* further from 20 than its weakest, and the headline says water is strong.
C25_Witness ==
    /\ ret.done /\ ret.err = "OK"
    /\ call.oheng_scores = profile(19, 19, 19, 19, 24)
    /\ ret.analysis.oheng_type = "balanced"
    /\ ret.messages.headline.target_name = "water"
    /\ ret.messages.headline.state = "slightly strong"

\* whether the stored percentages and day stem of row u are what resolving
\* and scoring u's stored birth date, time and calendar against db gives
ScoresMatchBirthData(u, db) ==
    LET r == calculate_saju_and_save(u, db)
    IN  /\ r.err = "OK"
        /\ u.oheng = r.scores
        /\ u.day_sky = r.saju_pillars.day_sky

\* whether a PATCH body carries a birth field
supplies_birth_data(data) ==
    \/ data.birth_date # NONE
    \/ data.birth_calendar # <<>>
    \/ data.time_unknown # "none"
    \/ data.birth_hm # NONE

\* C22 (as the specification states it): after every successful signup, and
\* after every successful profile update whose body carries birth data, the
\* stored percentages and day stem are those obtained by resolving and
\* scoring the stored birth date, time and calendar.  An update whose birth
\* data equal the stored ones is answered without a calculation, also for a
\* row that has no percentages.
C22_ScoresFollowBirthData ==
    [][\A uid \in Uids :
         /\ (/\ call'.fn = "register" /\ call'.uid = uid /\ ret'.err = "OK")
              => ScoresMatchBirthData(users'[uid], manses)
         /\ (call'.fn = "patch_my_info" /\ ret'.err = "OK")
              => \A data \in UpdateData :
                   (/\ supplies_birth_data(data)
                    /\ users[uid].exists
                    /\ patch_my_info(uid, data))
                     => ScoresMatchBirthData(users'[uid], manses)]_vars

\* C26 (as the claim states it): every stored user has percentages and a day
\* stem, a failed signup leaving no row.  The signup handlers commit the row
\* before the calculation and the rollback does not remove it.
C26_SignupAllOrNothing ==
    \A uid \in Uids :
        users[uid].exists
            => /\ \A k \in Oheng : users[uid].oheng[k] # NONE
               /\ users[uid].day_sky # "none"

\* a PATCH body with a nickname and nothing else
NicknameOnly ==
    [nickname |-> "nick1", gender |-> "none", birth_date |-> NONE,
     birth_calendar |-> <<>>, time_unknown |-> "none", birth_hm |-> NONE]

\* C27 (as the claim states it): a profile update whose body carries only a
\* nickname leaves the stored birth time, birth date, calendar, percentages
\* and day stem as they were and runs no calculation.  The code compares the
\* stored birth time with None, clears it and recalculates.
C27_NonBirthPatchKeepsSaju ==
    [][\A uid \in Uids :
         (users[uid].exists /\ patch_my_info(uid, NicknameOnly))
            => /\ users'[uid].birth_time = users[uid].birth_time
               /\ users'[uid].birth_date = users[uid].birth_date
               /\ users'[uid].birth_calendar = users[uid].birth_calendar
               /\ users'[uid].oheng = users[uid].oheng
               /\ users'[uid].day_sky = users[uid].day_sky
               /\ ret'.core_err = "NOT_RUN"]_vars

\* C28 (as the claim states it): once every request has ended and a profile
\* update has completed, the cached profile is absent or equal to the stored
\* row, whatever the interleaving of the reads and the updates.  A read that
\* missed the cache before the update's commit writes the row it read after
\* the update's invalidation.
C28_CacheFresh ==
    (/\ \A i \in DOMAIN requests : requests[i].pc = "done"
     /\ \E i \in DOMAIN requests :
          requests[i].fn = "patch_my_info" /\ requests[i].err = "OK")
        => \A uid \in Uids :
             \/ ~cache[uid].cached
             \/ get_user_profile(cache[uid]) = model_dump(users[uid])

\* whether a table has at most one row for each unordered pair of users and
\* no row that joins a user to themselves
one_row_per_pair(rows) ==
    \A f \in rows :
        /\ f.requester_id # f.receiver_id
        /\ \A g \in rows :
             g \in rows_between(rows, f.requester_id, f.receiver_id) => g = f

\* C29 (as the specification states it): after every step of any interleaving
\* of create, accept, reject and delete requests the Friendships table has at
\* most one row for each unordered pair of users and no row from a user to
\* themselves, and a create_friend_request that inserts its row does so only
\* when no pending or accepted row exists for the pair in either direction.
C29_FriendshipUnique ==
    [][/\ one_row_per_pair(friendships')
       /\ (/\ call'.fn = "create_friend_request" /\ call'.step = "write"
           /\ ret'.err = "OK")
            => \A f \in rows_between(friendships, call'.user_id, call'.target) :
                  f.status \notin {"pending", "accepted"}]_vars

\* C30 (as the specification states it): a row changes status only from
\* pending to accepted or rejected and only in a handle_friend_request of its
\* receiver; a handle_friend_request of anyone else is answered forbidden and
\* one on a row that is not pending conflict, the table staying as it is; an
\* accepted row leaves the table only in delete_friend, and a rejected row
\* only in a create_friend_request that puts a pending row for the pair in
\* its place.
C30_StatusTransitions ==
    [][/\ \A f \in friendships : \A g \in friendships' :
            (g.id = f.id /\ g.status # f.status)
              => /\ f.status = "pending"
                 /\ g.status \in {"accepted", "rejected"}
                 /\ call'.fn = "handle_friend_request"
                 /\ call'.user_id = f.receiver_id
       /\ (call'.fn = "handle_friend_request" /\ call'.step = "check")
            => \A f \in friendships :
                 (f.id = call'.target /\ call'.user_id # NONE)
                   => /\ f.receiver_id # call'.user_id
                        => ret'.err = "FORBIDDEN" /\ friendships' = friendships
                      /\ (f.receiver_id = call'.user_id /\ f.status # "pending")
                        => ret'.err = "CONFLICT" /\ friendships' = friendships
       /\ \A f \in friendships :
            (\A g \in friendships' : g.id # f.id)
              => /\ f.status # "pending"
                 /\ f.status = "accepted" => call'.fn = "delete_friend"
                 /\ f.status = "rejected"
                      => /\ call'.fn = "create_friend_request"
                         /\ \E g \in rows_between(friendships',
                                        f.requester_id, f.receiver_id) :
                              g.status = "pending" /\ g.id > f.id]_vars

====
